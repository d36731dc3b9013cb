---------------------------- MODULE Configuration ----------------------------
(***************************************************************************)
(* ConfigurationManager.read: the process environment, completed by a      *)
(* local environment file, read into an ApplicationConfiguration or        *)
(* rejected with INVALID_CONFIGURATION.                                    *)
(*                                                                         *)
(* A raw value is unset, blank (nothing but spaces), malformed (text that  *)
(* the reader of the variable rejects), a number, or some accepted text.   *)
(***************************************************************************)
EXTENDS Integers

CONSTANTS Unset, Blank, Malformed, Text, Invalid

\* The required integers and their ranges.
IntegerRange ==
  [GMAIL_MAX_IMPORT_RETRIES  |-> 0..10,
   GMAIL_TIMEOUT_MS          |-> 1000..120000,
   POP3_MAX_MESSAGES_PER_RUN |-> 1..500,
   POP3_PORT                 |-> 1..65535,
   POP3_TIMEOUT_MS           |-> 1000..120000]

\* The optional ones, with what they default to.
OptionalRange ==
  [UIDL_CLEANUP_BATCH_SIZE     |-> 1..1000,
   UIDL_MINIMUM_RETAINED_COUNT |-> 100..10000,
   UIDL_RETENTION_DAYS         |-> 1..3650]
Fallback ==
  [UIDL_CLEANUP_BATCH_SIZE     |-> 250,
   UIDL_MINIMUM_RETAINED_COUNT |-> 100,
   UIDL_RETENTION_DAYS         |-> 30]

\* Texts that are only required, and texts that must also be well formed.
FreeTexts ==
  {"AMPLITUDE_API_KEY", "GMAIL_CLIENT_ID", "GMAIL_CLIENT_SECRET", "GMAIL_REFRESH_TOKEN",
   "POP3_HOST", "POP3_PASSWORD", "POP3_USERNAME"}
CheckedTexts ==
  {"ENVIRONMENT_NAME", "GMAIL_USER_EMAIL", "POP3_TLS", "SOURCE_EMAIL_ADDRESS", "SOURCE_PROVIDER"}

\* The names of the project identifier, the preferred one first.
ProjectNames ==
  <<"APP_FIREBASE_PROJECT_ID", "FIREBASE_PROJECT_ID", "GCLOUD_PROJECT",
    "GOOGLE_CLOUD_PROJECT", "GCP_PROJECT">>

Required  == DOMAIN IntegerRange
Optionals == DOMAIN OptionalRange
Numbers   == Required \cup Optionals
Names     == Numbers \cup FreeTexts \cup CheckedTexts \cup {ProjectNames[i] : i \in 1..5}
-----------------------------------------------------------------------------
NormalizeEnvironment(env) == [n \in Names |-> IF env[n] = Blank THEN Unset ELSE env[n]]

\* Which of the two local files is read.
ResolveFileName(nodeEnv) == IF nodeEnv = "test" THEN ".env.test.local" ELSE ".env.local"

\* Mutant: the file wins.
WithFileFirst(env, file) == [n \in Names |-> IF file[n] # Unset THEN file[n] ELSE env[n]]

\* LocalEnvironmentFileLoader.execute: the file only adds.  What it adds is not
\* normalized: a blank value of the file stays blank.
WithFile(env, file) == [n \in Names |-> IF env[n] = Unset THEN file[n] ELSE env[n]]

EnsureInRange(value, range) == IF value \in range THEN value ELSE Invalid

\* env-var rejects a required variable that is unset or empty, and an integer
\* that is none.
ReadInteger(raw, range) ==
  IF raw \in {Unset, Blank, Malformed, Text} THEN Invalid ELSE EnsureInRange(raw, range)

ReadOptionalInteger(raw, fallback, range) ==
  IF raw = Unset THEN EnsureInRange(fallback, range) ELSE ReadInteger(raw, range)

\* The first name that is set at all, blank or not.
ReadProjectId(env) ==
  IF \A i \in 1..5 : env[ProjectNames[i]] = Unset THEN Invalid
  ELSE env[ProjectNames[CHOOSE i \in 1..5 :
         env[ProjectNames[i]] # Unset /\ \A j \in 1..(i - 1) : env[ProjectNames[j]] = Unset]]

ReadNumbers(env) ==
  [n \in Numbers |->
     IF n \in Required THEN ReadInteger(env[n], IntegerRange[n])
     ELSE ReadOptionalInteger(env[n], Fallback[n], OptionalRange[n])]

\* read: the configuration, or the error.
Read(process, file) ==
  LET env     == WithFile(NormalizeEnvironment(process), file)
      numbers == ReadNumbers(env)
  IN IF \/ \E n \in FreeTexts : env[n] \in {Unset, Blank}
        \/ \E n \in CheckedTexts : env[n] \in {Unset, Blank, Malformed}
        \/ ReadProjectId(env) = Invalid
        \/ \E n \in Numbers : numbers[n] = Invalid
     THEN Invalid
     ELSE numbers
=============================================================================
