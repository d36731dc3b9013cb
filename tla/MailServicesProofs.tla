-------------------------- MODULE MailServicesProofs ---------------------------
(***************************************************************************)
(* The operations of MailServices, for every environment and file the      *)
(* configuration may be read from and every size of the maildrop: no       *)
(* session is left open, the caller is told the truth, repetitions are     *)
(* bounded, and a listing is whole.                                        *)
(***************************************************************************)
EXTENDS MailServices, SequenceTheorems, TLAPS

Operations  == Pop3Operations \cup GmailOperations
Commands ==
  {"connect", "STAT", "UIDL", "LIST", "RETR", "parse", "findImportedMessage", "importMessage"}

ScriptSteps == [command : Commands, number : Nat]
-----------------------------------------------------------------------------
(***************************************************************************)
(* The configuration.                                                      *)
(***************************************************************************)
LEMMA IntegersRead ==
  ASSUME NEW raw, NEW range
  PROVE  ReadInteger(raw, range) # Invalid =>
           ReadInteger(raw, range) = raw /\ raw \in range
BY DEF ReadInteger, EnsureInRange

LEMMA FallbacksFit == \A n \in Optionals : Fallback[n] \in OptionalRange[n]
BY DEF Optionals, OptionalRange, Fallback

\* What an accepted configuration holds.
LEMMA AcceptedNumbers ==
  ASSUME NEW process, NEW file, Read(process, file) # Invalid, NEW n \in Numbers
  PROVE  /\ n \in Required => Read(process, file)[n] \in IntegerRange[n]
         /\ n \in Optionals => Read(process, file)[n] \in OptionalRange[n]
         /\ process[n] \notin {Unset, Blank} => Read(process, file)[n] = process[n]
         /\ process[n] \in {Unset, Blank} /\ file[n] # Unset => Read(process, file)[n] = file[n]
         /\ process[n] \in {Unset, Blank} /\ file[n] = Unset =>
              n \in Optionals /\ Read(process, file)[n] = Fallback[n]
<1>. DEFINE env     == WithFile(NormalizeEnvironment(process), file)
            numbers == ReadNumbers(env)
<1>1. Read(process, file) = numbers /\ numbers[n] # Invalid
  BY Zenon DEF Read
<1>2. n \in Names
  BY DEF Names
<1>3. env[n] = IF process[n] \in {Unset, Blank} THEN file[n] ELSE process[n]
  BY <1>2 DEF WithFile, NormalizeEnvironment
<1>. HIDE DEF env
<1>4. numbers[n] = IF n \in Required THEN ReadInteger(env[n], IntegerRange[n])
                   ELSE ReadOptionalInteger(env[n], Fallback[n], OptionalRange[n])
  BY DEF ReadNumbers
<1>. HIDE DEF numbers
<1>5. Required \cap Optionals = {} /\ n \in Required \cup Optionals
  <2>1. Required = {"GMAIL_MAX_IMPORT_RETRIES", "GMAIL_TIMEOUT_MS", "POP3_MAX_MESSAGES_PER_RUN",
                    "POP3_PORT", "POP3_TIMEOUT_MS"}
    BY DEF Required, IntegerRange
  <2>2. Optionals = {"UIDL_CLEANUP_BATCH_SIZE", "UIDL_MINIMUM_RETAINED_COUNT", "UIDL_RETENTION_DAYS"}
    BY DEF Optionals, OptionalRange
  <2>3. Required \cap Optionals = {}
    BY <2>1, <2>2
  <2>. QED
    BY <2>3 DEF Numbers
<1>6. CASE n \in Required
  <2>1. numbers[n] = ReadInteger(env[n], IntegerRange[n])
    BY <1>4, <1>6
  <2>2. env[n] # Unset
    BY <1>1, <2>1 DEF ReadInteger
  <2>. QED
    BY <1>1, <1>3, <1>5, <1>6, <2>1, <2>2, IntegersRead
<1>7. CASE n \in Optionals /\ env[n] # Unset
  <2>1. numbers[n] = ReadInteger(env[n], OptionalRange[n])
    BY <1>4, <1>5, <1>7 DEF ReadOptionalInteger
  <2>. QED
    BY <1>1, <1>3, <1>5, <1>7, <2>1, IntegersRead
<1>8. CASE n \in Optionals /\ env[n] = Unset
  <2>1. numbers[n] = EnsureInRange(Fallback[n], OptionalRange[n])
    BY <1>4, <1>5, <1>8 DEF ReadOptionalInteger
  <2>2. numbers[n] \in OptionalRange[n] /\ numbers[n] = Fallback[n]
    BY <1>1, <2>1, FallbacksFit, <1>8 DEF EnsureInRange
  <2>. QED
    BY <1>1, <1>3, <1>5, <1>8, <2>2
<1>. QED
  BY <1>5, <1>6, <1>7, <1>8

\* An accepted configuration holds numbers of their ranges, each as the process
\* environment gives it, or else the local file, or else its default
\* (ConfigurationManager.read), whatever environments and files there are.
THEOREM AcceptedConfigurationsAreSound == Spec => []ConfigurationSound
<1>1. Init => ConfigurationSound
  BY DEF Init, ConfigurationSound
<1>2. ConfigurationSound /\ [Next]_vars => ConfigurationSound'
  <2>. SUFFICES ASSUME ConfigurationSound, [Next]_vars PROVE ConfigurationSound'
    OBVIOUS
  <2>1. CASE ReadConfiguration
    <3>1. PICK process \in Environments, file \in Files :
            config' = Read(process, file) /\ origin' = [process |-> process, file |-> file]
      BY <2>1 DEF ReadConfiguration
    <3>2. origin'.process = process /\ origin'.file = file
      BY <3>1
    <3>. QED
      BY <3>1, <3>2, AcceptedNumbers DEF ConfigurationSound
  <2>2. CASE UNCHANGED <<config, origin>>
    BY <2>2 DEF ConfigurationSound
  <2>3. ReadConfiguration \/ UNCHANGED <<config, origin>>
    BY Zenon DEF Next, OperationStep, Begin, Succeed, SucceedStat, SkipListing, Garble, Parse, Fail,
       Wait, Quit, vars, given
  <2>. QED
    BY <2>1, <2>2, <2>3
<1>. QED
  BY <1>1, <1>2, PTL DEF Spec
-----------------------------------------------------------------------------
(***************************************************************************)
(* The scripts.                                                            *)
(***************************************************************************)
BodyCommands == {"UIDL", "LIST", "RETR", "parse"}

\* What is asked once a session is open and the messages are known: it ends with
\* the parsing of what was received.
Body(s) ==
  /\ s # <<>>
  /\ \A i \in 1..Len(s) : s[i].command \in BodyCommands
  /\ s[Len(s)].command = "parse"

LEMMA BodyTail ==
  ASSUME NEW s \in Seq(ScriptSteps), Body(s)
  PROVE  /\ Tail(s) \in Seq(ScriptSteps)
         /\ Head(s) \in ScriptSteps /\ Head(s).command \in BodyCommands
         /\ Head(s).command # "parse" => Tail(s) # <<>>
         /\ Tail(s) # <<>> => Body(Tail(s))
<1>1. /\ Tail(s) \in Seq(ScriptSteps) /\ Len(s) \in Nat /\ Len(s) > 0
      /\ Head(s) = s[1] /\ Len(Tail(s)) = Len(s) - 1
      /\ \A i \in 1..Len(Tail(s)) : Tail(s)[i] = s[i + 1]
  BY DEF Body
<1>2. Head(s) \in ScriptSteps /\ Head(s).command \in BodyCommands
  BY <1>1 DEF Body
<1>3. Head(s).command # "parse" => Tail(s) # <<>>
  <2>. SUFFICES ASSUME Tail(s) = <<>> PROVE Head(s).command = "parse"
    OBVIOUS
  <2>1. Len(s) = 1
    BY <1>1
  <2>. QED
    BY <1>1, <2>1 DEF Body
<1>4. ASSUME Tail(s) # <<>>
      PROVE  Body(Tail(s))
  <2>. DEFINE t == Tail(s)
              n == Len(t)
  <2>1. t \in Seq(ScriptSteps) /\ n \in Nat /\ n # 0
    BY <1>1, <1>4
  <2>2. n \in 1..n /\ n + 1 = Len(s)
    BY <1>1, <2>1
  <2>3. t[n] = s[Len(s)]
    BY <1>1, <2>2
  <2>4. \A i \in 1..n : t[i].command \in BodyCommands
    BY <1>1, <2>1 DEF Body
  <2>. QED
    BY <1>4, <2>3, <2>4 DEF Body
<1>. QED
  BY <1>1, <1>2, <1>3, <1>4

LEMMA StepFields ==
  \A c \in Commands, n \in Nat :
    Step(c, n) \in ScriptSteps /\ Step(c, n).command = c /\ Step(c, n).number = n
BY DEF Step, ScriptSteps

LEMMA BodySteps ==
  \A n \in Nat :
    /\ Step("UIDL", n) \in ScriptSteps /\ Step("UIDL", n).command = "UIDL"
    /\ Step("LIST", n) \in ScriptSteps /\ Step("LIST", n).command = "LIST"
    /\ Step("RETR", n) \in ScriptSteps /\ Step("RETR", n).command = "RETR"
    /\ Step("parse", n) \in ScriptSteps /\ Step("parse", n).command = "parse"
    /\ Step("UIDL", n).number = n /\ Step("LIST", n).number = n
    /\ Step("RETR", n).number = n /\ Step("parse", n).number = n
BY DEF Step, ScriptSteps, Commands

LEMMA BodyOf2 ==
  ASSUME NEW a \in ScriptSteps, NEW b \in ScriptSteps,
         a.command \in BodyCommands, b.command = "parse"
  PROVE  <<a, b>> \in Seq(ScriptSteps) /\ Body(<<a, b>>)
<1>. DEFINE s == <<a, b>>
<1>1. b.command \in BodyCommands
  BY DEF BodyCommands
<1>2. Len(s) = 2 /\ s[1] = a /\ s[2] = b
  OBVIOUS
<1>3. s \in Seq(ScriptSteps)
  OBVIOUS
<1>4. \A i \in 1..2 : i = 1 \/ i = 2
  OBVIOUS
<1>5. s # <<>>
  BY <1>2
<1>. HIDE DEF s
<1>. QED
  BY <1>1, <1>2, <1>3, <1>4, <1>5 DEF Body

LEMMA BodyOf3 ==
  ASSUME NEW a \in ScriptSteps, NEW b \in ScriptSteps, NEW c \in ScriptSteps,
         a.command \in BodyCommands, b.command \in BodyCommands, c.command = "parse"
  PROVE  <<a, b, c>> \in Seq(ScriptSteps) /\ Body(<<a, b, c>>)
<1>. DEFINE s == <<a, b, c>>
<1>1. c.command \in BodyCommands
  BY DEF BodyCommands
<1>2. Len(s) = 3 /\ s[1] = a /\ s[2] = b /\ s[3] = c
  OBVIOUS
<1>3. s \in Seq(ScriptSteps)
  OBVIOUS
<1>4. \A i \in 1..3 : i = 1 \/ i = 2 \/ i = 3
  OBVIOUS
<1>5. s # <<>>
  BY <1>2
<1>. HIDE DEF s
<1>. QED
  BY <1>1, <1>2, <1>3, <1>4, <1>5 DEF Body

LEMMA BodyOf4 ==
  ASSUME NEW a \in ScriptSteps, NEW b \in ScriptSteps, NEW c \in ScriptSteps, NEW d \in ScriptSteps,
         a.command \in BodyCommands, b.command \in BodyCommands, c.command \in BodyCommands, d.command = "parse"
  PROVE  <<a, b, c, d>> \in Seq(ScriptSteps) /\ Body(<<a, b, c, d>>)
<1>. DEFINE s == <<a, b, c, d>>
<1>1. d.command \in BodyCommands
  BY DEF BodyCommands
<1>2. Len(s) = 4 /\ s[1] = a /\ s[2] = b /\ s[3] = c /\ s[4] = d
  OBVIOUS
<1>3. s \in Seq(ScriptSteps)
  OBVIOUS
<1>4. \A i \in 1..4 : i = 1 \/ i = 2 \/ i = 3 \/ i = 4
  OBVIOUS
<1>5. s # <<>>
  BY <1>2
<1>. HIDE DEF s
<1>. QED
  BY <1>1, <1>2, <1>3, <1>4, <1>5 DEF Body

LEMMA StepsForEach ==
  ASSUME NEW n \in Nat
  PROVE  /\ StepsFor("listMessages", n) = <<Step("UIDL", n), Step("LIST", n), Step("parse", n)>>
         /\ StepsFor("listMessageReferences", n) = <<Step("UIDL", n), Step("parse", n)>>
         /\ StepsFor("getMessageMetadata", n) = <<Step("UIDL", n), Step("LIST", n), Step("parse", n)>>
         /\ StepsFor("getMessage", n) =
              <<Step("UIDL", n), Step("LIST", n), Step("RETR", n), Step("parse", n)>>
BY DEF StepsFor

LEMMA OneMessageBody ==
  ASSUME NEW o \in Pop3Operations
  PROVE  StepsFor(o, 1) \in Seq(ScriptSteps) /\ Body(StepsFor(o, 1))
<1>1. /\ Step("UIDL", 1) \in ScriptSteps /\ Step("UIDL", 1).command \in BodyCommands
      /\ Step("LIST", 1) \in ScriptSteps /\ Step("LIST", 1).command \in BodyCommands
      /\ Step("RETR", 1) \in ScriptSteps /\ Step("RETR", 1).command \in BodyCommands
      /\ Step("parse", 1) \in ScriptSteps /\ Step("parse", 1).command = "parse"
  BY BodySteps DEF BodyCommands
<1>2. CASE o \in {"listMessages", "getMessageMetadata"}
  <2>1. StepsFor(o, 1) = <<Step("UIDL", 1), Step("LIST", 1), Step("parse", 1)>>
    BY <1>2, StepsForEach
  <2>. QED
    BY <1>1, <2>1, BodyOf3
<1>3. CASE o = "listMessageReferences"
  <2>1. StepsFor(o, 1) = <<Step("UIDL", 1), Step("parse", 1)>>
    BY <1>3, StepsForEach
  <2>. QED
    BY <1>1, <2>1, BodyOf2
<1>4. CASE o = "getMessage"
  <2>1. StepsFor(o, 1) = <<Step("UIDL", 1), Step("LIST", 1), Step("RETR", 1), Step("parse", 1)>>
    BY <1>4, StepsForEach
  <2>. QED
    BY <1>1, <2>1, BodyOf4
<1>. QED
  BY <1>2, <1>3, <1>4 DEF Pop3Operations

\* The script an operation begins with.
LEMMA InitialScript ==
  ASSUME NEW o \in Operations
  PROVE  /\ InitialSteps(o, 1) \in Seq(ScriptSteps) /\ InitialSteps(o, 1) # <<>>
         /\ o \in GmailOperations => InitialSteps(o, 1) = <<Step(o, 1)>>
         /\ o \in Pop3Operations =>
              /\ Head(InitialSteps(o, 1)).command = "connect"
              /\ Tail(InitialSteps(o, 1)) =
                   IF Listing(o) THEN <<Step("STAT", 1)>> ELSE StepsFor(o, 1)
<1>1. \A x \in Pop3Operations : x \notin GmailOperations
  BY DEF Pop3Operations, GmailOperations
<1>2. \A c \in {"connect", "STAT"} \cup GmailOperations :
        Step(c, 1) \in ScriptSteps /\ Step(c, 1).command = c
  BY StepFields DEF Commands, GmailOperations
<1>3. CASE o \in GmailOperations
  <2>1. o \notin Pop3Operations /\ ~Listing(o)
    BY <1>1, <1>3 DEF Listing, Pop3Operations
  <2>2. InitialSteps(o, 1) = <<Step(o, 1)>>
    BY <1>3, <2>1 DEF InitialSteps
  <2>. DEFINE a == Step(o, 1)
  <2>3. a \in ScriptSteps
    BY <1>2, <1>3
  <2>. HIDE DEF a
  <2>4. <<a>> \in Seq(ScriptSteps) /\ <<a>> # <<>>
    BY <2>3
  <2>. QED
    BY <2>1, <2>2, <2>4 DEF a
<1>4. CASE o \in Pop3Operations /\ Listing(o)
  <2>1. InitialSteps(o, 1) = <<Step("connect", 1), Step("STAT", 1)>>
    BY <1>1, <1>4 DEF InitialSteps, Listing, GmailOperations
  <2>. DEFINE a == Step("connect", 1)
              b == Step("STAT", 1)
  <2>2. a \in ScriptSteps /\ b \in ScriptSteps /\ a.command = "connect"
    BY <1>2
  <2>. HIDE DEF a, b
  <2>3. /\ <<a, b>> \in Seq(ScriptSteps) /\ <<a, b>> # <<>>
        /\ Head(<<a, b>>) = a /\ Tail(<<a, b>>) = <<b>>
    BY <2>2
  <2>. QED
    BY <1>1, <1>4, <2>1, <2>2, <2>3 DEF a, b
<1>5. CASE o \in Pop3Operations /\ ~Listing(o)
  <2>. DEFINE s == StepsFor(o, 1)
              c == Step("connect", 1)
  <2>1. InitialSteps(o, 1) = <<c>> \o s
    BY <1>1, <1>5 DEF InitialSteps, Listing, Pop3Operations, GmailOperations
  <2>2. s \in Seq(ScriptSteps) /\ c \in ScriptSteps /\ c.command = "connect"
    BY <1>2, <1>5, OneMessageBody
  <2>. HIDE DEF s, c
  <2>3. /\ <<c>> \o s \in Seq(ScriptSteps) /\ <<c>> \o s # <<>>
        /\ Head(<<c>> \o s) = c /\ Tail(<<c>> \o s) = s
    BY <2>2
  <2>. QED
    BY <1>1, <1>5, <2>1, <2>2, <2>3 DEF s
<1>. QED
  BY <1>3, <1>4, <1>5 DEF Operations

Width(o) == IF o = "listMessages" THEN 3 ELSE 2

\* The script of a listing: the steps of each message in turn, parsed last.
LEMMA ListingScript ==
  ASSUME NEW o \in {"listMessages", "listMessageReferences"}, NEW numbers \in Seq(Nat)
  PROVE  LET s == ListingSteps(o, numbers)
         IN /\ s \in Seq(ScriptSteps) /\ Len(s) = Width(o) * Len(numbers)
            /\ \A i \in 1..Len(s) :
                 /\ s[i].command \in BodyCommands
                 /\ s[i].command = "parse" <=> i % Width(o) = 0
                 /\ s[i].number = numbers[(i + Width(o) - 1) \div Width(o)]
                 /\ (i + Width(o) - 1) \div Width(o) \in 1..Len(numbers)
<1>. DEFINE s == ListingSteps(o, numbers)
            n == Len(numbers)
<1>1. n \in Nat
  OBVIOUS
<1>2. CASE o = "listMessages"
  <2>1. \A m \in Nat : StepsFor(o, m) = <<Step("UIDL", m), Step("LIST", m), Step("parse", m)>>
    BY <1>2, StepsForEach
  <2>2. Len(StepsFor(o, 1)) = 3
    BY <2>1
  <2>3. s = [i \in 1..(3 * n) |-> StepsFor(o, numbers[(i + 3 - 1) \div 3])[((i - 1) % 3) + 1]]
    BY <2>2 DEF ListingSteps
  <2>. HIDE DEF s, n
  <2>4. ASSUME NEW i \in 1..(3 * n)
        PROVE  /\ s[i] \in ScriptSteps /\ s[i].command \in BodyCommands
               /\ s[i].command = "parse" <=> i % 3 = 0
               /\ s[i].number = numbers[(i + 3 - 1) \div 3]
               /\ (i + 3 - 1) \div 3 \in 1..n
    <3>. DEFINE k == (i + 3 - 1) \div 3
                m == numbers[k]
                p == ((i - 1) % 3) + 1
    <3>1. k \in 1..n /\ p \in {1, 2, 3} /\ (p = 3 <=> i % 3 = 0)
      BY <1>1
    <3>2. m \in Nat
      BY <3>1 DEF n
    <3>3. s[i] = StepsFor(o, m)[p]
      BY <2>3
    <3>. HIDE DEF k, m, p
    <3>4. s[i] = <<Step("UIDL", m), Step("LIST", m), Step("parse", m)>>[p]
      BY <2>1, <3>2, <3>3
    <3>5. s[i] \in {Step("UIDL", m), Step("LIST", m), Step("parse", m)}
          /\ (p = 3 <=> s[i] = Step("parse", m))
      <4>1. /\ Step("UIDL", m).command = "UIDL" /\ Step("LIST", m).command = "LIST"
            /\ Step("parse", m).command = "parse"
        BY <3>2, BodySteps
      <4>. QED
        BY <3>1, <3>4, <4>1
    <3>6. /\ s[i] \in ScriptSteps /\ s[i].command \in BodyCommands /\ s[i].number = m
          /\ s[i].command = "parse" <=> s[i] = Step("parse", m)
      BY <3>2, <3>5, BodySteps DEF BodyCommands
    <3>. QED
      BY <3>1, <3>5, <3>6 DEF k, m
  <2>5. s \in [1..(3 * n) -> ScriptSteps] /\ 3 * n \in Nat
    BY <1>1, <2>3, <2>4
  <2>6. s \in Seq(ScriptSteps) /\ Len(s) = 3 * n
    BY <2>5
  <2>. QED
    BY <1>2, <2>4, <2>6 DEF s, n, Width
<1>3. CASE o = "listMessageReferences"
  <2>1. \A m \in Nat : StepsFor(o, m) = <<Step("UIDL", m), Step("parse", m)>>
    BY <1>3, StepsForEach
  <2>2. Len(StepsFor(o, 1)) = 2
    BY <2>1
  <2>3. s = [i \in 1..(2 * n) |-> StepsFor(o, numbers[(i + 2 - 1) \div 2])[((i - 1) % 2) + 1]]
    BY <2>2 DEF ListingSteps
  <2>. HIDE DEF s, n
  <2>4. ASSUME NEW i \in 1..(2 * n)
        PROVE  /\ s[i] \in ScriptSteps /\ s[i].command \in BodyCommands
               /\ s[i].command = "parse" <=> i % 2 = 0
               /\ s[i].number = numbers[(i + 2 - 1) \div 2]
               /\ (i + 2 - 1) \div 2 \in 1..n
    <3>. DEFINE k == (i + 2 - 1) \div 2
                m == numbers[k]
                p == ((i - 1) % 2) + 1
    <3>1. k \in 1..n /\ p \in {1, 2} /\ (p = 2 <=> i % 2 = 0)
      BY <1>1
    <3>2. m \in Nat
      BY <3>1 DEF n
    <3>3. s[i] = StepsFor(o, m)[p]
      BY <2>3
    <3>. HIDE DEF k, m, p
    <3>4. s[i] = <<Step("UIDL", m), Step("parse", m)>>[p]
      BY <2>1, <3>2, <3>3
    <3>5. s[i] \in {Step("UIDL", m), Step("parse", m)}
          /\ (p = 2 <=> s[i] = Step("parse", m))
      <4>1. /\ Step("UIDL", m).command = "UIDL" /\ Step("parse", m).command = "parse"
        BY <3>2, BodySteps
      <4>. QED
        BY <3>1, <3>4, <4>1
    <3>6. /\ s[i] \in ScriptSteps /\ s[i].command \in BodyCommands /\ s[i].number = m
          /\ s[i].command = "parse" <=> s[i] = Step("parse", m)
      BY <3>2, <3>5, BodySteps DEF BodyCommands
    <3>. QED
      BY <3>1, <3>5, <3>6 DEF k, m
  <2>5. s \in [1..(2 * n) -> ScriptSteps] /\ 2 * n \in Nat
    BY <1>1, <2>3, <2>4
  <2>6. s \in Seq(ScriptSteps) /\ Len(s) = 2 * n
    BY <2>5
  <2>. QED
    BY <1>3, <2>4, <2>6 DEF s, n, Width
<1>. QED
  BY <1>2, <1>3
-----------------------------------------------------------------------------
(***************************************************************************)
(* Where an operation stands.                                              *)
(***************************************************************************)
AtGmail   == op \in GmailOperations /\ session = "none" /\ script = <<Step(op, 1)>>
AtConnect == op \in Pop3Operations /\ session = "none" /\ script = InitialSteps(op, 1) /\ ~garbled
AtStat    == Listing(op) /\ session = "open" /\ script = <<Step("STAT", 1)>> /\ ~garbled
AtBody    == op \in Pop3Operations /\ session = "open" /\ Body(script)
AtQuit    == op \in Pop3Operations /\ session = "open" /\ script = <<>>
AtRest    == op = Nothing /\ session # "open" /\ script = <<>>

\* A session is open exactly in the phases that leave it by quitting.
PhaseInv ==
  /\ script \in Seq(ScriptSteps)
  /\ AtGmail \/ AtConnect \/ AtStat \/ AtBody \/ AtQuit \/ AtRest
  /\ op # Nothing => config \notin {Nothing, Invalid}
  /\ result # Nothing => script = <<>>

\* What the first step of each phase is.
LEMMA Ahead ==
  ASSUME PhaseInv, script # <<>>
  PROVE  /\ AtGmail \/ AtConnect \/ AtStat \/ AtBody
         /\ op \in Operations /\ config \notin {Nothing, Invalid} /\ result = Nothing
         /\ AtGmail => Command = op /\ Tail(script) = <<>>
         /\ AtConnect =>
              /\ Command = "connect" /\ Tail(script) # <<>>
              /\ Listing(op) => Tail(script) = <<Step("STAT", 1)>>
              /\ ~Listing(op) => Tail(script) = StepsFor(op, 1)
         /\ AtStat => Command = "STAT"
         /\ AtBody =>
              /\ Command \in BodyCommands
              /\ Tail(script) \in Seq(ScriptSteps)
              /\ Command # "parse" => Tail(script) # <<>>
              /\ Tail(script) # <<>> => Body(Tail(script))
<1>1. /\ AtGmail \/ AtConnect \/ AtStat \/ AtBody
      /\ op \in Operations /\ config \notin {Nothing, Invalid} /\ result = Nothing
  BY NothingAssumption
     DEF PhaseInv, AtGmail, AtConnect, AtStat, AtBody, AtQuit, AtRest, Operations, Listing, Pop3Operations
<1>2. ASSUME AtGmail
      PROVE  Command = op /\ Tail(script) = <<>>
  <2>. DEFINE a == Step(op, 1)
  <2>1. a.command = op
    BY <1>2, StepFields DEF AtGmail, GmailOperations, Commands
  <2>2. script = <<a>>
    BY <1>2 DEF AtGmail
  <2>. HIDE DEF a
  <2>. QED
    BY <2>1, <2>2 DEF Command
<1>3. ASSUME AtConnect
      PROVE  /\ Command = "connect" /\ Tail(script) # <<>>
             /\ Listing(op) => Tail(script) = <<Step("STAT", 1)>>
             /\ ~Listing(op) => Tail(script) = StepsFor(op, 1)
  <2>1. /\ Head(script).command = "connect"
        /\ Tail(script) = IF Listing(op) THEN <<Step("STAT", 1)>> ELSE StepsFor(op, 1)
    BY <1>3, InitialScript DEF AtConnect, Operations
  <2>2. Body(StepsFor(op, 1))
    BY <1>3, OneMessageBody DEF AtConnect
  <2>. QED
    BY <2>1, <2>2 DEF Command, Body
<1>4. ASSUME AtStat
      PROVE  Command = "STAT"
  <2>. DEFINE a == Step("STAT", 1)
  <2>1. a.command = "STAT"
    BY StepFields DEF Commands
  <2>2. script = <<a>>
    BY <1>4 DEF AtStat
  <2>. HIDE DEF a
  <2>. QED
    BY <2>1, <2>2 DEF Command
<1>5. ASSUME AtBody
      PROVE  /\ Command \in BodyCommands
             /\ Tail(script) \in Seq(ScriptSteps)
             /\ Command # "parse" => Tail(script) # <<>>
             /\ Tail(script) # <<>> => Body(Tail(script))
  BY <1>5, BodyTail DEF AtBody, PhaseInv, Command
<1>. QED
  BY <1>1, <1>2, <1>3, <1>4, <1>5
-----------------------------------------------------------------------------
(***************************************************************************)
(* The numbers the operations use.                                         *)
(***************************************************************************)
Accepted == config \notin {Nothing, Invalid}

LEMMA RangesFit ==
  /\ "POP3_MAX_MESSAGES_PER_RUN" \in Required /\ IntegerRange["POP3_MAX_MESSAGES_PER_RUN"] \subseteq Nat \ {0}
  /\ "GMAIL_MAX_IMPORT_RETRIES" \in Required /\ IntegerRange["GMAIL_MAX_IMPORT_RETRIES"] \subseteq Nat
  /\ "GMAIL_TIMEOUT_MS" \in Required /\ IntegerRange["GMAIL_TIMEOUT_MS"] \subseteq Nat
  /\ "POP3_TIMEOUT_MS" \in Required /\ IntegerRange["POP3_TIMEOUT_MS"] \subseteq Nat
<1>1. "POP3_MAX_MESSAGES_PER_RUN" \in Required
  BY DEF Required, IntegerRange
<1>2. IntegerRange["POP3_MAX_MESSAGES_PER_RUN"] \subseteq Nat \ {0}
  BY DEF IntegerRange
<1>3. "GMAIL_MAX_IMPORT_RETRIES" \in Required
  BY DEF Required, IntegerRange
<1>4. IntegerRange["GMAIL_MAX_IMPORT_RETRIES"] \subseteq Nat
  BY DEF IntegerRange
<1>5. "GMAIL_TIMEOUT_MS" \in Required
  BY DEF Required, IntegerRange
<1>6. IntegerRange["GMAIL_TIMEOUT_MS"] \subseteq Nat
  BY DEF IntegerRange
<1>7. "POP3_TIMEOUT_MS" \in Required
  BY DEF Required, IntegerRange
<1>8. IntegerRange["POP3_TIMEOUT_MS"] \subseteq Nat
  BY DEF IntegerRange
<1>. QED
  BY Zenon, <1>1, <1>2, <1>3, <1>4, <1>5, <1>6, <1>7, <1>8

LEMMA Limits ==
  ASSUME NEW c, \A n \in Required : c[n] \in IntegerRange[n]
  PROVE  /\ c["POP3_MAX_MESSAGES_PER_RUN"] \in Nat \ {0}
         /\ c["GMAIL_MAX_IMPORT_RETRIES"] \in Nat
         /\ c["GMAIL_TIMEOUT_MS"] \in Nat
         /\ c["POP3_TIMEOUT_MS"] \in Nat
BY Zenon, RangesFit

LEMMA AcceptedLimits ==
  ASSUME ConfigurationSound, Accepted
  PROVE  /\ config.POP3_MAX_MESSAGES_PER_RUN \in Nat \ {0}
         /\ config.GMAIL_MAX_IMPORT_RETRIES \in Nat
         /\ MaxAttempts \in Nat /\ MaxDelay \in Nat
<1>1. \A n \in Required : config[n] \in IntegerRange[n]
  BY DEF ConfigurationSound, Accepted, Numbers
<1>. QED
  BY <1>1, Limits DEF MaxAttempts, MaxDelay

AskedInv == asked \in Nat

LEMMA LimitsAsked == Spec => []AskedInv
<1>1. Init => AskedInv
  BY DEF Init, AskedInv
<1>2. AskedInv /\ [Next]_vars => AskedInv'
  <2>. SUFFICES ASSUME AskedInv, [Next]_vars PROVE AskedInv'
    OBVIOUS
  <2>1. asked' = asked \/ \E o \in Operations : Begin(o)
    BY Zenon DEF Next, OperationStep, Operations, ReadConfiguration, Succeed, SucceedStat, SkipListing,
       Garble, Parse, Fail, Wait, Quit, vars, given
  <2>2. ASSUME NEW o \in Operations, Begin(o) PROVE asked' \in Nat
    BY <2>2, CountsAssumption DEF Begin
  <2>. QED
    BY <2>1, <2>2 DEF AskedInv
<1>. QED
  BY <1>1, <1>2, PTL DEF Spec

LEMMA LimitRequested ==
  ASSUME ConfigurationSound, Accepted, AskedInv
  PROVE  /\ RequestedLimit \in Nat
         /\ RequestedLimit \in {asked, config.POP3_MAX_MESSAGES_PER_RUN}
         /\ RequestedLimit <= asked /\ RequestedLimit <= config.POP3_MAX_MESSAGES_PER_RUN
BY AcceptedLimits DEF RequestedLimit, AskedInv

LEMMA NumbersListed ==
  ASSUME NEW c \in Nat, NEW limit \in Nat
  PROVE  LET N == RecentMessageNumbers(c, limit)
         IN /\ N \in Seq(Nat) /\ Len(N) = IF c < limit THEN c ELSE limit
            /\ \A i \in 1..Len(N) : N[i] = c + 1 - i
<1>. DEFINE first == IF c - limit + 1 > 1 THEN c - limit + 1 ELSE 1
            n == c - first + 1
            N == [i \in 1..n |-> c + 1 - i]
<1>1. n \in Nat /\ n = IF c < limit THEN c ELSE limit
  OBVIOUS
<1>2. \A i \in 1..n : c + 1 - i \in Nat
  OBVIOUS
<1>3. RecentMessageNumbers(c, limit) = N
  BY DEF RecentMessageNumbers
<1>. HIDE DEF n
<1>4. N \in [1..n -> Nat] /\ \A i \in 1..n : N[i] = c + 1 - i
  BY <1>2
<1>5. N \in Seq(Nat) /\ Len(N) = n
  BY <1>1, <1>4
<1>. HIDE DEF N
<1>. QED
  BY <1>1, <1>3, <1>4, <1>5

LEMMA ListingBody ==
  ASSUME NEW o, Listing(o), NEW c \in Nat, NEW limit \in Nat
  PROVE  LET s == ListingSteps(o, RecentMessageNumbers(c, limit))
         IN s \in Seq(ScriptSteps) /\ (s # <<>> => Body(s))
<1>. DEFINE N == RecentMessageNumbers(c, limit)
            s == ListingSteps(o, N)
            n == Len(N)
<1>1. N \in Seq(Nat) /\ n \in Nat
  BY NumbersListed
<1>2. o \in {"listMessages", "listMessageReferences"}
  BY DEF Listing
<1>. HIDE DEF N
<1>3. /\ s \in Seq(ScriptSteps) /\ Len(s) = Width(o) * n
      /\ \A i \in 1..Len(s) :
           s[i].command \in BodyCommands /\ (s[i].command = "parse" <=> i % Width(o) = 0)
  BY <1>1, <1>2, ListingScript
<1>4. Width(o) = 2 \/ Width(o) = 3
  BY DEF Width
<1>. HIDE DEF s, n
<1>5. Len(s) \in Nat /\ Len(s) % Width(o) = 0
  BY <1>1, <1>3, <1>4
<1>6. ASSUME s # <<>>
      PROVE  Body(s)
  <2>1. Len(s) \in 1..Len(s)
    BY <1>3, <1>5, <1>6
  <2>. QED
    BY <1>3, <1>5, <1>6, <2>1 DEF Body
<1>. QED
  BY <1>3, <1>6 DEF s, N
-----------------------------------------------------------------------------
(***************************************************************************)
(* No session is left open.                                                *)
(***************************************************************************)
LEMMA SettlesPhase ==
  ASSUME NEW outcome, Settle(outcome), UNCHANGED <<config, session>>,
         \/ session = "none"
         \/ op \in Pop3Operations /\ session = "open", Accepted
  PROVE  PhaseInv'
<1>1. script' = <<>> /\ session' = session /\ config' = config
      /\ op' = IF session = "open" THEN op ELSE Nothing
  BY DEF Settle
<1>. QED
  BY <1>1 DEF PhaseInv, AtQuit, AtRest, Accepted

LEMMA PhaseNext ==
  ASSUME PhaseInv, ConfigurationSound, AskedInv, [Next]_vars
  PROVE  PhaseInv'
<1>1. ASSUME ReadConfiguration
      PROVE  PhaseInv'
  <2>1. config = Nothing
        /\ UNCHANGED <<op, session, script, garbled, result>>
    BY <1>1 DEF ReadConfiguration, progress, listing
  <2>2. op = Nothing
    BY <2>1 DEF PhaseInv
  <2>. QED
    BY <2>1, <2>2 DEF PhaseInv, AtGmail, AtConnect, AtStat, AtBody, AtQuit, AtRest
<1>2. ASSUME NEW o \in Operations, Begin(o)
      PROVE  PhaseInv'
  <2>1. /\ op' = o /\ session' = "none" /\ script' = InitialSteps(o, 1) /\ garbled' = FALSE
        /\ config' = config /\ config \notin {Nothing, Invalid} /\ result' = Nothing
    BY <1>2 DEF Begin, given
  <2>2. InitialSteps(o, 1) \in Seq(ScriptSteps)
        /\ (o \in GmailOperations => InitialSteps(o, 1) = <<Step(o, 1)>>)
    BY InitialScript
  <2>3. AtGmail' \/ AtConnect'
    BY <2>1, <2>2 DEF Operations, AtGmail, AtConnect
  <2>. QED
    BY <2>1, <2>2, <2>3 DEF PhaseInv
<1>3. ASSUME Succeed
      PROVE  PhaseInv'
  <2>1. /\ script # <<>> /\ Command # "parse" /\ Command # "STAT"
        /\ session' = IF Command = "connect" THEN "open" ELSE session
        /\ Advance(Tail(script)) /\ UNCHANGED <<config, garbled>>
    BY <1>3 DEF Succeed, Calling, Ready, given, listing
  <2>2. CASE AtGmail
    <3>1. Tail(script) = <<>> /\ Command \in GmailOperations /\ Accepted /\ session = "none"
      BY <2>1, <2>2, Ahead DEF AtGmail, Accepted
    <3>2. Settle(Success)
      BY <2>1, <3>1 DEF Advance
    <3>3. session' = session
      BY <2>1, <3>1 DEF GmailOperations
    <3>. QED
      BY <2>1, <3>1, <3>2, <3>3, SettlesPhase
  <2>3. CASE AtConnect
    <3>1. /\ Command = "connect" /\ Tail(script) # <<>> /\ result = Nothing
          /\ Listing(op) => Tail(script) = <<Step("STAT", 1)>>
          /\ ~Listing(op) => Tail(script) = StepsFor(op, 1)
          /\ op \in Pop3Operations /\ ~garbled
      BY <2>1, <2>3, Ahead DEF AtConnect
    <3>2. script' = Tail(script) /\ op' = op /\ result' = result /\ session' = "open"
          /\ garbled' = garbled
      BY <2>1, <3>1 DEF Advance
    <3>3. Step("STAT", 1) \in ScriptSteps
      BY StepFields DEF Commands
    <3>4. script' \in Seq(ScriptSteps) /\ (AtStat' \/ AtBody')
      <4>1. CASE Listing(op)
        <5>1. <<Step("STAT", 1)>> \in Seq(ScriptSteps)
          BY <3>3
        <5>. QED
          BY <3>1, <3>2, <4>1, <5>1 DEF AtStat, Listing
      <4>2. CASE ~Listing(op)
        BY <3>1, <3>2, <4>2, OneMessageBody DEF AtBody
      <4>. QED
        BY <4>1, <4>2
    <3>. QED
      BY <2>1, <3>1, <3>2, <3>4, Ahead DEF PhaseInv
  <2>4. CASE AtBody
    <3>1. /\ Tail(script) # <<>> /\ Tail(script) \in Seq(ScriptSteps) /\ Body(Tail(script))
          /\ Command \in BodyCommands /\ result = Nothing /\ Accepted
      BY <2>1, <2>4, Ahead DEF Accepted
    <3>2. script' = Tail(script) /\ op' = op /\ result' = result /\ session' = session
      BY <2>1, <3>1 DEF Advance, BodyCommands
    <3>3. AtBody'
      BY <2>4, <3>1, <3>2 DEF AtBody
    <3>. QED
      BY <2>1, <3>1, <3>2, <3>3 DEF PhaseInv, Accepted
  <2>5. ~AtStat
    BY <2>1, Ahead
  <2>. QED
    BY <2>1, <2>2, <2>3, <2>4, <2>5, Ahead
<1>4. ASSUME SucceedStat
      PROVE  PhaseInv'
  <2>. DEFINE s == ListingSteps(op, RecentMessageNumbers(count', RequestedLimit))
  <2>1. /\ script # <<>> /\ Command = "STAT" /\ count' \in Nat
        /\ Advance(s) /\ UNCHANGED <<config, session, garbled>>
    BY <1>4, CountsAssumption DEF SucceedStat, Calling, Ready, given
  <2>2. AtStat /\ Accepted /\ result = Nothing
    BY <2>1, Ahead DEF BodyCommands, AtGmail, GmailOperations, Accepted
  <2>3. s \in Seq(ScriptSteps) /\ (s # <<>> => Body(s))
    BY <2>1, <2>2, LimitRequested, ListingBody DEF AtStat
  <2>. HIDE DEF s
  <2>4. op \in Pop3Operations /\ session = "open"
    BY <2>2 DEF AtStat, Listing, Pop3Operations
  <2>5. CASE s = <<>>
    <3>1. Settle(Success)
      BY <2>1, <2>5 DEF Advance
    <3>. QED
      BY <2>1, <2>2, <2>4, <3>1, SettlesPhase
  <2>6. CASE s # <<>>
    <3>1. script' = s /\ op' = op /\ result' = result
      BY <2>1, <2>6 DEF Advance
    <3>2. AtBody'
      BY <2>1, <2>3, <2>4, <2>6, <3>1 DEF AtBody
    <3>. QED
      BY <2>1, <2>2, <2>3, <3>1, <3>2 DEF PhaseInv, Accepted
  <2>. QED
    BY <2>5, <2>6
<1>5. ASSUME Garble
      PROVE  PhaseInv'
  <2>1. /\ script # <<>> /\ Command \in {"STAT", "UIDL", "LIST"} /\ UNCHANGED <<config, session>>
        /\ Command = "STAT" => Settle(Report(ErrorCode("STAT"), Malformation))
        /\ Command # "STAT" => Advance(Tail(script))
    BY <1>5 DEF Garble, Calling, Ready, given
  <2>2. (AtStat \/ AtBody) /\ Accepted /\ result = Nothing
    BY <2>1, Ahead DEF AtGmail, GmailOperations, Accepted
  <2>3. CASE Command = "STAT"
    <3>1. op \in Pop3Operations /\ session = "open"
      BY <2>2 DEF AtStat, AtBody, Listing, Pop3Operations
    <3>. QED
      BY <2>1, <2>2, <2>3, <3>1, SettlesPhase
  <2>4. CASE Command # "STAT"
    <3>1. AtBody
      BY <2>1, <2>2, <2>4, Ahead
    <3>2. Tail(script) # <<>> /\ Tail(script) \in Seq(ScriptSteps) /\ Body(Tail(script))
      BY <2>1, <3>1, Ahead
    <3>3. script' = Tail(script) /\ op' = op /\ result' = result
      BY <2>1, <2>4, <3>2 DEF Advance
    <3>4. AtBody'
      BY <2>1, <3>1, <3>2, <3>3 DEF AtBody
    <3>. QED
      BY <2>1, <2>2, <3>2, <3>3, <3>4 DEF PhaseInv, Accepted
  <2>. QED
    BY <2>3, <2>4
<1>6. ASSUME Parse
      PROVE  PhaseInv'
  <2>1. /\ script # <<>> /\ Command = "parse" /\ UNCHANGED <<config, session>>
        /\ \/ Settle(Report(ErrorCode("parse"), Malformation))
           \/ Advance(Tail(script))
    BY <1>6, Zenon DEF Parse, Ready, given
  <2>2. AtBody /\ Accepted /\ result = Nothing
    BY <2>1, Ahead DEF AtGmail, GmailOperations, Accepted
  <2>3. op \in Pop3Operations /\ session = "open"
    BY <2>2 DEF AtBody
  <2>4. CASE Settle(Report(ErrorCode("parse"), Malformation))
    BY <2>1, <2>2, <2>3, <2>4, SettlesPhase
  <2>5. CASE Advance(Tail(script)) /\ Tail(script) = <<>>
    <3>1. Settle(Success)
      BY <2>5 DEF Advance
    <3>. QED
      BY <2>1, <2>2, <2>3, <3>1, SettlesPhase
  <2>6. CASE Advance(Tail(script)) /\ Tail(script) # <<>>
    <3>1. Tail(script) \in Seq(ScriptSteps) /\ Body(Tail(script))
      BY <2>1, <2>2, <2>6, Ahead
    <3>2. script' = Tail(script) /\ op' = op /\ result' = result
      BY <2>6 DEF Advance
    <3>3. AtBody'
      BY <2>1, <2>3, <3>1, <3>2 DEF AtBody
    <3>. QED
      BY <2>1, <2>2, <3>1, <3>2, <3>3 DEF PhaseInv, Accepted
  <2>. QED
    BY <2>1, <2>4, <2>5, <2>6
<1>7. ASSUME NEW e \in Errors, Fail(e)
      PROVE  PhaseInv'
  <2>1. /\ script # <<>> /\ UNCHANGED <<config, session, garbled>>
        /\ \/ UNCHANGED <<op, script, result>>
           \/ Settle(Report(ErrorCode(Command), e))
    BY <1>7, Zenon DEF Fail, Calling, Ready, given, listing
  <2>2. CASE UNCHANGED <<op, script, result>>
    BY <2>1, <2>2 DEF PhaseInv, AtGmail, AtConnect, AtStat, AtBody, AtQuit, AtRest
  <2>3. CASE Settle(Report(ErrorCode(Command), e))
    <3>1. Accepted /\ (session = "none" \/ (op \in Pop3Operations /\ session = "open"))
      BY <2>1, Ahead
         DEF AtGmail, AtConnect, AtStat, AtBody, Accepted, Listing, Pop3Operations
    <3>. QED
      BY <2>1, <2>3, <3>1, SettlesPhase
  <2>. QED
    BY <2>1, <2>2, <2>3
<1>8. ASSUME Quit
      PROVE  PhaseInv'
  <2>1. /\ op' = Nothing /\ session' = "quit" /\ script = <<>>
        /\ UNCHANGED <<config, script, result>>
    BY <1>8 DEF Quit, Leave, given, progress
  <2>. QED
    BY <2>1 DEF PhaseInv, AtRest
<1>9. ASSUME UNCHANGED <<config, op, session, script, garbled, result>>
      PROVE  PhaseInv'
  BY <1>9 DEF PhaseInv, AtGmail, AtConnect, AtStat, AtBody, AtQuit, AtRest
<1>10. ASSUME SkipListing
       PROVE  PhaseInv'
  <2>1. /\ script # <<>> /\ Command = "STAT" /\ Settle(Success) /\ UNCHANGED <<config, session>>
    BY <1>10 DEF SkipListing, Ready, given
  <2>2. AtStat /\ Accepted
    BY <2>1, Ahead DEF BodyCommands, AtGmail, GmailOperations, Accepted
  <2>3. op \in Pop3Operations /\ session = "open"
    BY <2>2 DEF AtStat, Listing, Pop3Operations
  <2>. QED
    BY <2>1, <2>2, <2>3, SettlesPhase
<1>11. \/ ReadConfiguration \/ Succeed \/ SucceedStat \/ SkipListing \/ Garble \/ Parse \/ Quit
       \/ \E o \in Operations : Begin(o)
       \/ \E e \in Errors : Fail(e)
       \/ UNCHANGED <<config, op, session, script, garbled, result>>
  BY Zenon DEF Next, OperationStep, Operations, Wait, vars, given, progress, listing
<1>. QED
  BY <1>1, <1>2, <1>3, <1>4, <1>5, <1>6, <1>7, <1>8, <1>9, <1>10, <1>11

LEMMA PhaseInit == Init => PhaseInv
BY DEF Init, PhaseInv, AtRest

\* Every operation of the two services is in one of its phases, or at rest.
THEOREM Phased == Spec => []PhaseInv
<1>1. PhaseInv /\ ConfigurationSound /\ AskedInv /\ [Next]_vars => PhaseInv'
  BY PhaseNext
<1>. QED
  BY <1>1, PhaseInit, AcceptedConfigurationsAreSound, LimitsAsked, PTL DEF Spec

\* However an operation of NodePop3MailService ends, its session was quit (the
\* finally block of withClient).
THEOREM SessionsAreClosed == Spec => []SessionsClosed
<1>1. PhaseInv => SessionsClosed
  BY NothingAssumption
     DEF PhaseInv, AtGmail, AtConnect, AtStat, AtBody, AtQuit, AtRest, SessionsClosed, Listing, Pop3Operations
<1>. QED
  BY <1>1, Phased, PTL
-----------------------------------------------------------------------------
(***************************************************************************)
(* What the caller is told.                                                *)
(***************************************************************************)
\* Nothing that failed is left when the parser runs, and a failure is only
\* reported when it may not be repeated.
ToldInv ==
  /\ calls \in Nat /\ lastError \in Errors \cup {Nothing}
  /\ script # <<>> => calls <= MaxAttempts
  /\ script # <<>> /\ Command = "parse" => lastError = Nothing
  /\ ErrorsTruthful

\* An outcome of which ErrorsTruthful says nothing.
LEMMA SilentOutcome ==
  ASSUME result' \in {Nothing, Success} \/ result'.code \in {"GMAIL_IMPORT_FAILED", "GMAIL_LOOKUP_FAILED"}
  PROVE  ErrorsTruthful'
BY DEF ErrorsTruthful

LEMMA ToldNext ==
  ASSUME PhaseInv, ConfigurationSound, ToldInv, [Next]_vars
  PROVE  ToldInv'
<1>1. ASSUME ReadConfiguration
      PROVE  ToldInv'
  <2>1. config = Nothing /\ UNCHANGED <<op, session, script, calls, lastError, result>>
    BY <1>1 DEF ReadConfiguration, progress
  <2>2. script = <<>>
    BY <2>1, Ahead
  <2>. QED
    BY <2>1, <2>2 DEF ToldInv, ErrorsTruthful
<1>2. ASSUME NEW o \in Operations, Begin(o)
      PROVE  ToldInv'
  <2>1. /\ calls' = 0 /\ lastError' = Nothing /\ result' = Nothing
        /\ config' = config /\ Accepted
    BY <1>2 DEF Begin, given, Accepted
  <2>2. MaxAttempts' \in Nat
    <3>1. \A n \in Required : config[n] \in IntegerRange[n]
      BY <2>1 DEF ConfigurationSound, Accepted, Numbers
    <3>. QED
      BY <2>1, <3>1, Limits DEF MaxAttempts
  <2>3. ErrorsTruthful'
    BY <2>1, SilentOutcome
  <2>. QED
    BY <2>1, <2>2, <2>3 DEF ToldInv
<1>3. ASSUME NEW steps, Advance(steps), script # <<>>, lastError' = Nothing, UNCHANGED config
      PROVE  ToldInv'
  <2>1. Accepted /\ result = Nothing
    BY <1>3, Ahead DEF Accepted
  <2>2. MaxAttempts \in Nat
    BY <2>1, AcceptedLimits
  <2>3. CASE steps = <<>>
    <3>1. script' = <<>> /\ result' = Success /\ calls' = calls
      BY <1>3, <2>3 DEF Advance, Settle
    <3>2. ErrorsTruthful'
      BY <3>1, SilentOutcome
    <3>. QED
      BY <1>3, <3>1, <3>2 DEF ToldInv
  <2>4. CASE steps # <<>>
    <3>1. calls' = 0 /\ result' = result /\ op' = op
      BY <1>3, <2>4 DEF Advance
    <3>2. ErrorsTruthful'
      BY <2>1, <3>1, SilentOutcome
    <3>3. MaxAttempts' = MaxAttempts
      BY <1>3, <3>1 DEF MaxAttempts, InGmail
    <3>. QED
      BY <1>3, <2>2, <3>1, <3>2, <3>3 DEF ToldInv
  <2>. QED
    BY <2>3, <2>4
<1>4. ASSUME NEW c, Settle(Report(ErrorCode(c), Malformation)), c \notin {"connect", "importMessage", "findImportedMessage"},
             op \in Pop3Operations, session # "none", lastError' = Nothing, session' = session
      PROVE  ToldInv'
  <2>1. ~InGmail
    BY <1>4 DEF InGmail, Pop3Operations, GmailOperations
  <2>2. ErrorCode(c) \in {"POP3_RETR_FAILED", "POP3_LIST_FAILED"}
    BY <1>4 DEF ErrorCode
  <2>3. /\ script' = <<>> /\ calls' = calls
        /\ result' = Report(ErrorCode(c), Malformation)
    BY <1>4 DEF Settle
  <2>4. result'.code \in {"POP3_RETR_FAILED", "POP3_LIST_FAILED"} /\ ~result'.retriable
    BY <2>1, <2>2, <2>3 DEF Report, Malformation
  <2>5. ErrorsTruthful'
    BY <1>4, <2>4 DEF ErrorsTruthful
  <2>. QED
    BY <1>4, <2>3, <2>5 DEF ToldInv
<1>5. ASSUME Garble
      PROVE  ToldInv'
  <2>1. /\ script # <<>> /\ Command \in {"STAT", "UIDL", "LIST"} /\ lastError' = Nothing
        /\ UNCHANGED <<config, session>>
        /\ Command = "STAT" => Settle(Report(ErrorCode("STAT"), Malformation))
        /\ Command # "STAT" => Advance(Tail(script))
    BY <1>5 DEF Garble, Calling, Ready, given
  <2>2. AtStat \/ AtBody
    BY <2>1, Ahead DEF AtGmail, GmailOperations
  <2>3. op \in Pop3Operations /\ session # "none"
    BY <2>2 DEF AtStat, AtBody, Listing, Pop3Operations
  <2>. QED
    BY <1>3, <1>4, <2>1, <2>3
<1>6. ASSUME Parse
      PROVE  ToldInv'
  <2>1. /\ script # <<>> /\ Command = "parse" /\ UNCHANGED <<config, session, lastError>>
        /\ \/ Settle(Report(ErrorCode("parse"), Malformation))
           \/ Advance(Tail(script))
    BY <1>6, Zenon DEF Parse, Ready, given
  <2>2. AtBody
    BY <2>1, Ahead DEF AtGmail, GmailOperations
  <2>3. op \in Pop3Operations /\ session # "none" /\ lastError' = Nothing
    BY <2>1, <2>2 DEF AtBody, ToldInv
  <2>. QED
    BY <1>3, <1>4, <2>1, <2>3
<1>7. ASSUME NEW e \in Errors, Fail(e)
      PROVE  ToldInv'
  <2>1. /\ script # <<>> /\ Command # "parse" /\ lastError' = e /\ UNCHANGED <<config, session>>
        /\ Repeated(e) => calls' = calls + 1 /\ UNCHANGED <<op, script, result>>
        /\ ~Repeated(e) => Settle(Report(ErrorCode(Command), e))
    BY <1>7, Zenon DEF Fail, Calling, Ready, given
  <2>2. /\ Accepted /\ result = Nothing /\ op \in Operations
        /\ calls \in Nat /\ calls <= MaxAttempts /\ MaxAttempts \in Nat
    BY <2>1, Ahead, AcceptedLimits DEF ToldInv, Accepted
  <2>3. CASE Repeated(e)
    <3>1. calls < MaxAttempts /\ MaxAttempts' = MaxAttempts /\ Command' = Command
      BY <2>1, <2>3 DEF Repeated, MaxAttempts, InGmail, Command
    <3>2. ErrorsTruthful'
      BY <2>1, <2>2, <2>3, SilentOutcome
    <3>. QED
      BY <2>1, <2>2, <2>3, <3>1, <3>2 DEF ToldInv
  <2>4. CASE ~Repeated(e)
    <3>1. script' = <<>> /\ calls' = calls /\ result' = Report(ErrorCode(Command), e)
      BY <2>1, <2>4 DEF Settle
    <3>2. CASE op \in GmailOperations
      <4>1. Command = op
        BY <2>1, <3>2, Ahead, NothingAssumption
           DEF AtConnect, AtStat, AtBody, Listing, Pop3Operations, GmailOperations
      <4>2. result'.code \in {"GMAIL_IMPORT_FAILED", "GMAIL_LOOKUP_FAILED"}
        BY <3>1, <3>2, <4>1 DEF Report, ErrorCode, GmailOperations
      <4>3. ErrorsTruthful'
        BY <4>2, SilentOutcome
      <4>. QED
        BY <2>1, <2>2, <3>1, <4>3 DEF ToldInv
    <3>3. CASE op \in Pop3Operations
      <4>1. ~InGmail /\ MaxAttempts = 3
        BY <3>3 DEF InGmail, MaxAttempts, Pop3Operations, GmailOperations
      <4>2. e.event => calls = 3
        BY <2>2, <2>4, <4>1 DEF Repeated, Retriable
      <4>3. AtConnect \/ AtStat \/ AtBody
        BY <2>1, <3>3, Ahead DEF AtGmail, Pop3Operations, GmailOperations
      <4>4. Command \in {"connect", "STAT", "UIDL", "LIST", "RETR"} /\ (Command = "connect" <=> session = "none")
        BY <2>1, <4>3, Ahead DEF AtConnect, AtStat, AtBody, BodyCommands
      <4>5. /\ result'.code = ErrorCode(Command)
            /\ result'.retriable = (e.event /\ ~e.authentication)
        BY <3>1, <4>1 DEF Report
      <4>6. ErrorCode(Command) = "POP3_CONNECTION_FAILED" <=> session' = "none"
        BY <2>1, <4>4 DEF ErrorCode
      <4>7. lastError' = e /\ e # Nothing /\ calls' = calls
        BY <2>1, <3>1, NothingAssumption
      <4>8. result'.retriable => e.event /\ ~e.authentication
        BY Zenon, <4>5
      <4>9. ErrorsTruthful'
        BY <4>2, <4>5, <4>6, <4>7, <4>8 DEF ErrorsTruthful
      <4>. QED
        BY <2>1, <2>2, <3>1, <4>9 DEF ToldInv
    <3>. QED
      BY <2>2, <3>2, <3>3 DEF Operations
  <2>. QED
    BY <2>3, <2>4
<1>8. ASSUME Quit
      PROVE  ToldInv'
  <2>1. /\ session = "open" /\ session' = "quit" /\ script' = <<>>
        /\ UNCHANGED <<calls, lastError, result>>
    BY <1>8 DEF Quit, Leave, progress
  <2>. QED
    BY <2>1 DEF ToldInv, ErrorsTruthful
<1>9. ASSUME UNCHANGED <<config, op, session, script, calls, lastError, result>>
      PROVE  ToldInv'
  BY <1>9 DEF ToldInv, ErrorsTruthful, MaxAttempts, InGmail, Command
<1>10. ASSUME Succeed \/ SucceedStat
       PROVE  \E steps : Advance(steps) /\ script # <<>> /\ lastError' = Nothing /\ UNCHANGED config
  BY <1>10, Zenon DEF Succeed, SucceedStat, Calling, Ready, given
<1>11. ASSUME SkipListing
       PROVE  ToldInv'
  <2>1. /\ script' = <<>> /\ result' = Success /\ UNCHANGED <<calls, lastError>>
    BY <1>11 DEF SkipListing, Settle
  <2>2. ErrorsTruthful'
    BY <2>1, SilentOutcome
  <2>. QED
    BY <2>1, <2>2 DEF ToldInv
<1>12. \/ ReadConfiguration \/ Succeed \/ SucceedStat \/ SkipListing \/ Garble \/ Parse \/ Quit
       \/ \E o \in Operations : Begin(o)
       \/ \E e \in Errors : Fail(e)
       \/ UNCHANGED <<config, op, session, script, calls, lastError, result>>
  BY Zenon DEF Next, OperationStep, Operations, Wait, vars, given, progress
<1>. QED
  BY <1>1, <1>2, <1>3, <1>5, <1>6, <1>7, <1>8, <1>9, <1>10, <1>11, <1>12

LEMMA ToldInit == Init => ToldInv
BY DEF Init, ToldInv, ErrorsTruthful

\* What executeWithRetry has still to repeat, and what it told the caller.
THEOREM Told == Spec => []ToldInv
<1>1. PhaseInv /\ ConfigurationSound /\ ToldInv /\ [Next]_vars => ToldInv'
  BY ToldNext
<1>. QED
  BY <1>1, ToldInit, Phased, AcceptedConfigurationsAreSound, PTL DEF Spec

\* A failure is called retriable only after the repetitions that a socket event
\* allows, never when it is about the login, and the connection is blamed exactly
\* when no session was opened (toPop3Error, executeWithRetry).
THEOREM CallersAreToldTheTruth == Spec => []ErrorsTruthful
<1>1. ToldInv => ErrorsTruthful
  BY DEF ToldInv
<1>. QED
  BY <1>1, Told, PTL
-----------------------------------------------------------------------------
(***************************************************************************)
(* Repetitions.                                                            *)
(***************************************************************************)
GmailRetries == config["GMAIL_MAX_IMPORT_RETRIES"]

\* Every copy of a message was sent by a call of its own.
RetryInv ==
  /\ copies \in Nat
  /\ ~Accepted => copies = 0 /\ delay = 0
  /\ op \in GmailOperations => copies <= calls
  /\ op \in Pop3Operations => copies = 0
  /\ script = <<>> => delay = 0
  /\ Accepted => copies <= GmailRetries + 2 /\ delay <= MaxDelay

LEMMA RetriesStayBounded ==
  ASSUME RetryInv
  PROVE  RetriesBounded
BY DEF RetryInv, RetriesBounded, GmailRetries, Accepted

LEMMA AcceptedRanges ==
  ASSUME ConfigurationSound, Accepted
  PROVE  \A n \in Required : config[n] \in IntegerRange[n]
BY DEF ConfigurationSound, Accepted, Numbers

\* A step that leaves the configuration alone, and pauses no longer than allowed.
LEMMA RetryKept ==
  ASSUME RetryInv, PhaseInv, ConfigurationSound, UNCHANGED config, Accepted,
         copies' \in Nat, copies' <= GmailRetries + 2,
         op' \in GmailOperations => copies' <= calls',
         op' \in Pop3Operations => copies' = 0,
         delay' = 0 \/ (op' = op /\ script' # <<>> /\ delay' <= MaxDelay)
  PROVE  RetryInv'
<1>1. MaxDelay' \in Nat
  BY AcceptedRanges, Limits DEF MaxDelay
<1>2. op' = op => MaxDelay' = MaxDelay
  BY DEF MaxDelay, InGmail
<1>3. GmailRetries' = GmailRetries /\ Accepted'
  BY DEF GmailRetries, Accepted
<1>4. delay' <= MaxDelay'
  BY <1>1, <1>2
<1>. QED
  BY <1>3, <1>4 DEF RetryInv

LEMMA DelaysBounded ==
  ASSUME NEW n \in Nat, MaxDelay \in Nat
  PROVE  RetryDelay(n) <= MaxDelay
BY DEF RetryDelay

LEMMA RetryNext ==
  ASSUME PhaseInv, ConfigurationSound, ConfigurationSound', ToldInv, RetryInv, [Next]_vars
  PROVE  RetryInv'
<1>1. ASSUME ReadConfiguration
      PROVE  RetryInv'
  <2>1. config = Nothing /\ UNCHANGED <<op, script, copies, calls, delay>>
    BY <1>1 DEF ReadConfiguration, progress
  <2>2. copies' = 0 /\ delay' = 0
    BY <2>1 DEF RetryInv, Accepted
  <2>3. op' = Nothing
    BY <2>1 DEF PhaseInv
  <2>4. ASSUME Accepted'
        PROVE  GmailRetries' \in Nat /\ MaxDelay' \in Nat
    <3>1. \A n \in Required : config'[n] \in IntegerRange[n]
      BY <2>4 DEF ConfigurationSound, Accepted, Numbers
    <3>. QED
      BY <3>1, Limits DEF GmailRetries, MaxDelay
  <2>. QED
    BY <2>2, <2>3, <2>4, NothingAssumption DEF RetryInv
<1>2. ASSUME NEW o \in Operations, Begin(o)
      PROVE  RetryInv'
  <2>1. /\ calls' = 0 /\ copies' = 0 /\ delay' = 0
        /\ config' = config /\ Accepted
    BY <1>2 DEF Begin, given, Accepted
  <2>2. GmailRetries \in Nat
    BY <2>1, AcceptedRanges, Limits DEF GmailRetries
  <2>. QED
    BY <2>1, <2>2, RetryKept
<1>3. ASSUME NEW steps, Advance(steps), script # <<>>, UNCHANGED <<config, copies>>, op \in Pop3Operations
      PROVE  RetryInv'
  <2>1. Accepted /\ copies' = 0
    BY <1>3, Ahead DEF Accepted, RetryInv
  <2>2. GmailRetries \in Nat
    BY <2>1, AcceptedRanges, Limits DEF GmailRetries
  <2>3. delay' = 0 /\ (op' = op \/ op' = Nothing)
    BY <1>3 DEF Advance, Settle
  <2>4. op' \notin GmailOperations
    BY <1>3, <2>3, NothingAssumption DEF Pop3Operations, GmailOperations
  <2>. QED
    BY <1>3, <2>1, <2>2, <2>3, <2>4, RetryKept
<1>4. ASSUME NEW outcome, Settle(outcome), script # <<>>, UNCHANGED <<config, copies, session>>, op \in Pop3Operations
      PROVE  RetryInv'
  <2>1. Accepted /\ copies' = 0
    BY <1>4, Ahead DEF Accepted, RetryInv
  <2>2. GmailRetries \in Nat
    BY <2>1, AcceptedRanges, Limits DEF GmailRetries
  <2>3. delay' = 0 /\ (op' = op \/ op' = Nothing)
    BY <1>4 DEF Settle
  <2>4. op' \notin GmailOperations
    BY <1>4, <2>3, NothingAssumption DEF Pop3Operations, GmailOperations
  <2>. QED
    BY <1>4, <2>1, <2>2, <2>3, <2>4, RetryKept
<1>5. ASSUME Succeed
      PROVE  RetryInv'
  <2>1. /\ script # <<>> /\ Command # "parse" /\ UNCHANGED config /\ Advance(Tail(script))
        /\ session' = IF Command = "connect" THEN "open" ELSE session
        /\ copies' = IF Command = "importMessage" THEN copies + 1 ELSE copies
    BY <1>5 DEF Succeed, Calling, Ready, given
  <2>2. CASE op \in Pop3Operations
    <3>1. Command # "importMessage"
      BY <2>1, <2>2, Ahead DEF AtGmail, Pop3Operations, GmailOperations, BodyCommands
    <3>. QED
      BY <1>3, <2>1, <2>2, <3>1
  <2>3. CASE op \notin Pop3Operations
    <3>1. /\ op \in GmailOperations /\ Tail(script) = <<>> /\ Accepted /\ session = "none"
          /\ Command = op
      BY <2>1, <2>3, Ahead DEF AtGmail, AtConnect, AtStat, AtBody, Listing, Pop3Operations, Operations, Accepted
    <3>2. delay' = 0 /\ op' = Nothing
      BY <2>1, <3>1 DEF Advance, Settle, GmailOperations
    <3>3. /\ MaxAttempts = GmailRetries + 1 /\ GmailRetries \in Nat /\ calls \in Nat
          /\ calls <= MaxAttempts /\ copies \in Nat /\ copies <= calls
      BY <2>1, <3>1, AcceptedRanges, Limits
         DEF GmailRetries, MaxAttempts, InGmail, ToldInv, RetryInv
    <3>4. copies' \in Nat /\ copies' <= GmailRetries + 2
      BY <2>1, <3>3
    <3>. QED
      BY <2>1, <3>1, <3>2, <3>4, RetryKept, NothingAssumption
  <2>. QED
    BY <2>2, <2>3
<1>6. ASSUME SucceedStat \/ SkipListing \/ Garble
      PROVE  RetryInv'
  <2>1. /\ script # <<>> /\ Command \in {"STAT", "UIDL", "LIST"} /\ UNCHANGED <<config, copies, session>>
        /\ (\E steps : Advance(steps)) \/ (\E outcome : Settle(outcome))
    BY <1>6, Zenon DEF SucceedStat, SkipListing, Garble, Calling, Ready, given
  <2>2. op \in Pop3Operations
    BY <2>1, Ahead
       DEF AtGmail, AtConnect, AtStat, AtBody, Listing, Pop3Operations, GmailOperations
  <2>. QED
    BY <1>3, <1>4, <2>1, <2>2
<1>7. ASSUME Parse
      PROVE  RetryInv'
  <2>1. /\ script # <<>> /\ Command = "parse" /\ UNCHANGED <<config, copies, session>>
        /\ (\E steps : Advance(steps)) \/ (\E outcome : Settle(outcome))
    BY <1>7, Zenon DEF Parse, Ready, given
  <2>2. op \in Pop3Operations
    BY <2>1, Ahead
       DEF AtGmail, AtConnect, AtStat, AtBody, Listing, Pop3Operations, GmailOperations
  <2>. QED
    BY <1>3, <1>4, <2>1, <2>2
<1>8. ASSUME NEW e \in Errors, Fail(e)
      PROVE  RetryInv'
  <2>1. /\ script # <<>> /\ UNCHANGED <<config, session>>
        /\ copies' \in IF Command = "importMessage" THEN {copies, copies + 1} ELSE {copies}
        /\ Repeated(e) =>
             calls' = calls + 1 /\ delay' = RetryDelay(calls + 1) /\ UNCHANGED <<op, script, result>>
        /\ ~Repeated(e) => Settle(Report(ErrorCode(Command), e))
    BY <1>8, Zenon DEF Fail, Calling, Ready, given
  <2>2. /\ Accepted /\ op \in Operations /\ GmailRetries \in Nat /\ MaxDelay \in Nat
        /\ calls \in Nat /\ MaxAttempts \in Nat /\ calls <= MaxAttempts /\ copies \in Nat
    BY <2>1, Ahead, AcceptedLimits, AcceptedRanges, Limits DEF ToldInv, RetryInv, Accepted, GmailRetries
  <2>3. /\ copies' \in Nat /\ copies' <= GmailRetries + 2
        /\ op \in GmailOperations => copies' <= calls + 1
        /\ op \in Pop3Operations => copies' = 0
    <3>1. CASE op \in GmailOperations
      <4>1. MaxAttempts = GmailRetries + 1 /\ copies <= calls /\ op \notin Pop3Operations
        BY <3>1 DEF MaxAttempts, InGmail, GmailRetries, RetryInv, GmailOperations, Pop3Operations
      <4>2. copies' = copies \/ copies' = copies + 1
        BY <2>1
      <4>. QED
        BY <2>2, <4>1, <4>2
    <3>2. CASE op \in Pop3Operations
      <4>1. Command # "importMessage"
        BY <2>1, <3>2, Ahead DEF AtGmail, Pop3Operations, GmailOperations, BodyCommands
      <4>2. copies' = 0 /\ op \notin GmailOperations
        BY <2>1, <3>2, <4>1 DEF RetryInv, Pop3Operations, GmailOperations
      <4>. QED
        BY <2>2, <4>2
    <3>. QED
      BY <2>2, <3>1, <3>2 DEF Operations
  <2>4. CASE Repeated(e)
    <3>1. delay' <= MaxDelay
      <4>1. calls + 1 \in Nat
        BY <2>2
      <4>. QED
        BY <2>1, <2>2, <2>4, <4>1, DelaysBounded
    <3>. QED
      BY <2>1, <2>2, <2>3, <2>4, <3>1, RetryKept
  <2>5. CASE ~Repeated(e)
    <3>1. delay' = 0 /\ op' = IF session = "open" THEN op ELSE Nothing
      BY <2>1, <2>5 DEF Settle
    <3>2. op' \notin GmailOperations /\ (op' \in Pop3Operations => op \in Pop3Operations)
      BY <2>1, <3>1, NothingAssumption, Ahead
         DEF AtGmail, AtConnect, AtStat, AtBody, Listing, Pop3Operations, GmailOperations
    <3>. QED
      BY <2>1, <2>2, <2>3, <3>1, <3>2, RetryKept
  <2>. QED
    BY <2>4, <2>5
<1>9. ASSUME Quit
      PROVE  RetryInv'
  <2>1. /\ op # Nothing /\ op' = Nothing /\ script = <<>>
        /\ UNCHANGED <<config, script, calls, delay, copies>>
    BY <1>9 DEF Quit, Leave, given, progress
  <2>2. Accepted /\ delay = 0
    BY <2>1 DEF PhaseInv, Accepted, RetryInv
  <2>. QED
    BY <2>1, <2>2, NothingAssumption, RetryKept DEF RetryInv
<1>10. ASSUME Wait
       PROVE  RetryInv'
  <2>1. delay # 0 /\ delay' = 0 /\ UNCHANGED <<config, op, script, calls, copies>>
    BY <1>10 DEF Wait, given
  <2>2. Accepted
    BY <2>1 DEF RetryInv
  <2>. QED
    BY <2>1, <2>2, RetryKept DEF RetryInv
<1>11. ASSUME UNCHANGED vars
       PROVE  RetryInv'
  BY <1>11 DEF vars, given, progress, RetryInv, Accepted, GmailRetries, MaxDelay, InGmail
<1>12. \/ ReadConfiguration \/ Succeed \/ SucceedStat \/ SkipListing \/ Garble \/ Parse \/ Quit \/ Wait
       \/ \E o \in Operations : Begin(o)
       \/ \E e \in Errors : Fail(e)
       \/ UNCHANGED vars
  BY Zenon DEF Next, OperationStep, Operations
<1>. QED
  BY <1>1, <1>2, <1>5, <1>6, <1>7, <1>8, <1>9, <1>10, <1>11, <1>12

\* A message is sent to Gmail at most once per call of its import, and no pause
\* is longer than the timeout (GoogleGmailMailService.importMessage,
\* buildRetryPolicy, calculateRetryDelayMs).
THEOREM RetriesAreBounded == Spec => []RetriesBounded
<1>1. Init => RetryInv
  BY NothingAssumption DEF Init, RetryInv, Accepted
<1>2. PhaseInv /\ ConfigurationSound /\ ConfigurationSound' /\ ToldInv /\ RetryInv /\ [Next]_vars => RetryInv'
  BY RetryNext
<1>3. RetryInv => RetriesBounded
  BY RetriesStayBounded
<1>. QED
  BY <1>1, <1>2, <1>3, Phased, Told, AcceptedConfigurationsAreSound, PTL DEF Spec
-----------------------------------------------------------------------------
(***************************************************************************)
(* Listings.                                                               *)
(***************************************************************************)
\* The last steps, s, of the listing of the numbers N by operation o are still to
\* be taken, and l is what the others listed.
Underway(o, N, s, l) ==
  LET full == ListingSteps(o, N)
      done == Len(full) - Len(s)
  IN /\ Len(s) <= Len(full)
     /\ \A i \in 1..Len(s) : s[i] = full[done + i]
     /\ l \in Seq(Nat) /\ Len(l) = done \div Width(o)
     /\ \A i \in 1..Len(l) : l[i] = N[i]

LEMMA ListingBegins ==
  ASSUME NEW o \in {"listMessages", "listMessageReferences"}, NEW N \in Seq(Nat)
  PROVE  Underway(o, N, ListingSteps(o, N), <<>>)
<1>. DEFINE full == ListingSteps(o, N)
            w == Width(o)
<1>1. full \in Seq(ScriptSteps)
  BY ListingScript
<1>2. w = 2 \/ w = 3
  BY DEF Width
<1>. HIDE DEF full, w
<1>3. Len(full) \in Nat /\ Len(full) - Len(full) = 0 /\ 0 \div w = 0
  BY <1>1, <1>2
<1>4. \A i \in 1..Len(full) : 0 + i = i
  BY <1>3
<1>5. <<>> \in Seq(Nat) /\ Len(<<>>) = 0
  OBVIOUS
<1>. QED
  BY <1>3, <1>4, <1>5 DEF Underway, full, w

LEMMA OneFurther ==
  ASSUME NEW d \in Nat, NEW w, w = 2 \/ w = 3
  PROVE  /\ (d + 1) % w # 0 => (d + 1) \div w = d \div w
         /\ (d + 1) % w = 0 => (d + 1) \div w = d \div w + 1 /\ (d + 1 + w - 1) \div w = d \div w + 1
<1>1. /\ (d + 1) % 2 # 0 => (d + 1) \div 2 = d \div 2
      /\ (d + 1) % 2 = 0 => (d + 1) \div 2 = d \div 2 + 1 /\ (d + 1 + 2 - 1) \div 2 = d \div 2 + 1
  OBVIOUS
<1>2. /\ (d + 1) % 3 # 0 => (d + 1) \div 3 = d \div 3
      /\ (d + 1) % 3 = 0 => (d + 1) \div 3 = d \div 3 + 1 /\ (d + 1 + 3 - 1) \div 3 = d \div 3 + 1
  OBVIOUS
<1>3. CASE w = 2
  BY <1>1, <1>3
<1>4. CASE w = 3
  BY <1>2, <1>4
<1>. QED
  BY <1>3, <1>4

\* The next step of a listing: the number it is about is listed when it parses,
\* and after the last step everything is listed.
LEMMA ListingAdvances ==
  ASSUME NEW o \in {"listMessages", "listMessageReferences"}, NEW N \in Seq(Nat),
         NEW s \in Seq(ScriptSteps), NEW l, s # <<>>, Underway(o, N, s, l)
  PROVE  /\ Head(s).command # "parse" => Underway(o, N, Tail(s), l)
         /\ Head(s).command = "parse" => Underway(o, N, Tail(s), Append(l, Head(s).number))
<1>. DEFINE full == ListingSteps(o, N)
            w == Width(o)
            done == Len(full) - Len(s)
            n == Len(N)
            t == Tail(s)
            h == Head(s)
            k == (done + 1 + w - 1) \div w
            l2 == Append(l, h.number)
<1>1. /\ full \in Seq(ScriptSteps) /\ Len(full) = w * n /\ n \in Nat
      /\ \A i \in 1..Len(full) :
           /\ full[i].command = "parse" <=> i % w = 0
           /\ full[i].number = N[(i + w - 1) \div w]
           /\ (i + w - 1) \div w \in 1..n
  BY ListingScript
<1>2. w = 2 \/ w = 3
  BY DEF Width
<1>3. /\ Len(s) <= Len(full) /\ \A i \in 1..Len(s) : s[i] = full[done + i]
      /\ l \in Seq(Nat) /\ Len(l) = done \div w /\ \A i \in 1..Len(l) : l[i] = N[i]
  BY DEF Underway
<1>4. /\ t \in Seq(ScriptSteps) /\ Len(s) \in Nat /\ Len(s) > 0 /\ h = s[1] /\ Len(t) = Len(s) - 1
      /\ \A i \in 1..Len(t) : t[i] = s[i + 1]
  OBVIOUS
<1>. HIDE DEF full, w, n, t, h
<1>5. /\ done \in Nat /\ done + 1 \in 1..Len(full) /\ Len(full) - Len(t) = done + 1
      /\ Len(t) \in Nat /\ Len(t) <= Len(full) /\ Len(full) \in Nat
  BY <1>1, <1>3, <1>4
<1>6. h = full[done + 1]
  BY <1>3, <1>4
<1>7. (h.command = "parse" <=> (done + 1) % w = 0) /\ h.number = N[k] /\ k \in 1..n
  BY <1>1, <1>5, <1>6
<1>8. \A i \in 1..Len(t) : t[i] = full[done + 1 + i]
  <2>. SUFFICES ASSUME NEW i \in 1..Len(t) PROVE t[i] = full[done + 1 + i]
    OBVIOUS
  <2>1. i + 1 \in 1..Len(s) /\ done + (i + 1) = done + 1 + i /\ t[i] = s[i + 1]
    BY <1>4, <1>5
  <2>. QED
    BY <1>3, <2>1
<1>. HIDE DEF done
<1>9. ASSUME h.command # "parse"
      PROVE  Underway(o, N, t, l)
  <2>1. (done + 1) % w # 0
    BY <1>7, <1>9
  <2>2. (done + 1) \div w = done \div w
    BY <1>2, <1>5, <2>1, OneFurther
  <2>. QED
    BY <1>3, <1>5, <1>8, <2>2 DEF Underway, full, w
<1>10. ASSUME h.command = "parse"
       PROVE  Underway(o, N, t, l2)
  <2>1. (done + 1) % w = 0
    BY <1>7, <1>10
  <2>2. (done + 1) \div w = done \div w + 1 /\ k = done \div w + 1
    BY <1>2, <1>5, <2>1, OneFurther
  <2>. HIDE DEF k
  <2>3. h.number \in Nat /\ Len(l) + 1 = k /\ Len(l) \in Nat
    BY <1>3, <1>7, <2>2 DEF n
  <2>4. l2 \in Seq(Nat) /\ Len(l2) = k /\ l2[k] = N[k] /\ \A i \in 1..Len(l) : l2[i] = l[i]
    BY <1>3, <1>7, <2>3
  <2>5. \A i \in 1..Len(l2) : i = k \/ i \in 1..Len(l)
    BY <2>3, <2>4
  <2>. HIDE DEF l2
  <2>6. \A i \in 1..Len(l2) : l2[i] = N[i]
    BY <1>3, <2>4, <2>5
  <2>. QED
    BY <1>5, <1>8, <2>2, <2>4, <2>6 DEF Underway, full, w
<1>. QED
  BY <1>9, <1>10 DEF t, h, l2

LEMMA ListingEnds ==
  ASSUME NEW o \in {"listMessages", "listMessageReferences"}, NEW N \in Seq(Nat),
         NEW l, Underway(o, N, <<>>, l)
  PROVE  l = N
<1>. DEFINE full == ListingSteps(o, N)
            w == Width(o)
            n == Len(N)
<1>1. Len(full) = w * n /\ n \in Nat /\ Len(full) - Len(<<>>) = Len(full)
  BY ListingScript DEF Width
<1>2. w = 2 \/ w = 3
  BY DEF Width
<1>3. l \in Seq(Nat) /\ Len(l) = Len(full) \div w /\ \A i \in 1..Len(l) : l[i] = N[i]
  BY <1>1 DEF Underway
<1>. HIDE DEF full, w, n
<1>4. Len(l) = n
  BY <1>1, <1>2, <1>3
<1>. QED
  BY <1>3, <1>4, SeqEqual DEF n

LEMMA BodyWithoutStat ==
  ASSUME NEW s \in Seq(ScriptSteps), Body(s)
  PROVE  s # <<Step("STAT", 1)>>
<1>. DEFINE a == Step("STAT", 1)
<1>1. a.command = "STAT"
  BY StepFields DEF Commands
<1>. HIDE DEF a
<1>. SUFFICES ASSUME s = <<a>> PROVE FALSE
  BY DEF a
<1>2. 1 \in 1..Len(s) /\ s[1] = a
  OBVIOUS
<1>. QED
  BY <1>1, <1>2 DEF Body, BodyCommands

LEMMA ReportsFail ==
  ASSUME NEW c, NEW e
  PROVE  Report(ErrorCode(c), e) # Success
<1>1. ErrorCode(c) # "ok"
  BY DEF ErrorCode
<1>2. Report(ErrorCode(c), e).code = ErrorCode(c) /\ Success.code = "ok"
  BY DEF Report, Success
<1>. QED
  BY <1>1, <1>2

\* The numbers a listing is to list.
Window == RecentMessageNumbers(count, RequestedLimit)

ListInv ==
  /\ count \in Nat
  /\ result # Nothing => Accepted
  /\ AtGmail \/ AtConnect \/ AtStat => count = 0 /\ listed = <<>>
  /\ AtBody /\ count # 0 => Listing(op) /\ Underway(op, Window, script, listed)
  /\ ListsNewest

LEMMA NotNewest ==
  ASSUME result' # Success \/ count' = 0
  PROVE  ListsNewest'
BY DEF ListsNewest

LEMMA WindowNumbers ==
  ASSUME ConfigurationSound, Accepted, AskedInv, count \in Nat
  PROVE  /\ Window \in Seq(Nat)
         /\ Len(Window) = IF count < RequestedLimit THEN count ELSE RequestedLimit
         /\ \A i \in 1..Len(Window) : Window[i] = count + 1 - i
BY LimitRequested, NumbersListed DEF Window

\* A step to the rest of a body, of which one more number may be listed.
LEMMA BodyAdvances ==
  ASSUME PhaseInv, ListInv, AtBody, Tail(script) # <<>>, script' = Tail(script),
         UNCHANGED <<config, asked, op, session, count, result>>,
         count # 0 => Underway(op, Window, Tail(script), listed')
  PROVE  ListInv'
<1>1. script # <<>> /\ Accepted /\ result = Nothing /\ session = "open"
  BY Ahead DEF AtBody, Body, Accepted
<1>2. script' \in Seq(ScriptSteps) /\ Body(script')
  BY <1>1, Ahead
<1>3. ~AtGmail' /\ ~AtConnect' /\ ~AtStat'
  BY <1>1, <1>2, BodyWithoutStat DEF AtGmail, AtConnect, AtStat
<1>4. ListsNewest'
  BY <1>1, NotNewest, NothingAssumption
<1>5. Window' = Window /\ Accepted'
  BY <1>1 DEF Window, RequestedLimit, Accepted
<1>. QED
  BY <1>3, <1>4, <1>5 DEF ListInv

\* The end of an operation that lists nothing or fails.
LEMMA ListEnds ==
  ASSUME script' = <<>>, ListsNewest', count' \in Nat, Accepted, UNCHANGED config
  PROVE  ListInv'
<1>1. ~AtGmail' /\ ~AtConnect' /\ ~AtStat' /\ ~AtBody'
  <2>1. /\ script' # <<Step("STAT", 1)>> /\ script' # <<Step(op', 1)>>
        /\ ~Body(script')
    BY DEF Body
  <2>2. op' \in Pop3Operations => script' # InitialSteps(op', 1)
    BY InitialScript DEF Operations
  <2>. QED
    BY <2>1, <2>2 DEF AtGmail, AtConnect, AtStat, AtBody
<1>. QED
  BY <1>1 DEF ListInv, Accepted

LEMMA ListNext ==
  ASSUME PhaseInv, ConfigurationSound, AskedInv, ListInv, [Next]_vars
  PROVE  ListInv'
<1>1. ASSUME ReadConfiguration
      PROVE  ListInv'
  <2>1. config = Nothing /\ UNCHANGED <<op, session, script, garbled, count, listed, result>>
    BY <1>1 DEF ReadConfiguration, progress, listing
  <2>2. op' = Nothing /\ result' = Nothing
    BY <2>1 DEF PhaseInv, ListInv, Accepted
  <2>3. ~AtGmail' /\ ~AtConnect' /\ ~AtStat' /\ ~AtBody'
    BY <2>2, NothingAssumption DEF AtGmail, AtConnect, AtStat, AtBody, Listing, Pop3Operations
  <2>4. ListsNewest'
    BY <2>2, NotNewest, NothingAssumption
  <2>. QED
    BY <2>1, <2>2, <2>3, <2>4 DEF ListInv
<1>2. ASSUME NEW o \in Operations, Begin(o)
      PROVE  ListInv'
  <2>1. count' = 0 /\ listed' = <<>> /\ result' = Nothing
    BY <1>2 DEF Begin
  <2>2. ListsNewest'
    BY <2>1, NotNewest
  <2>. QED
    BY <2>1, <2>2 DEF ListInv
<1>3. ASSUME Succeed
      PROVE  ListInv'
  <2>1. /\ script # <<>> /\ Command # "parse" /\ Command # "STAT"
        /\ session' = IF Command = "connect" THEN "open" ELSE session
        /\ Advance(Tail(script)) /\ UNCHANGED <<config, asked, count, listed>>
    BY <1>3 DEF Succeed, Calling, Ready, given, listing
  <2>2. Accepted /\ result = Nothing /\ count \in Nat
    BY <2>1, Ahead DEF Accepted, ListInv
  <2>3. CASE AtGmail \/ AtConnect
    <3>1. count' = 0 /\ listed' = <<>>
      BY <2>1, <2>3 DEF ListInv
    <3>2. ListsNewest'
      BY <3>1, NotNewest
    <3>. QED
      BY <2>1, <2>2, <3>1, <3>2 DEF ListInv, Accepted
  <2>4. CASE AtBody
    <3>1. Tail(script) # <<>> /\ Command \in BodyCommands
      BY <2>1, <2>4, Ahead
    <3>2. script' = Tail(script) /\ op' = op /\ result' = result /\ session' = session
      BY <2>1, <3>1 DEF Advance, BodyCommands
    <3>3. ASSUME count # 0
          PROVE  Underway(op, Window, Tail(script), listed')
      <4>1. Listing(op) /\ Underway(op, Window, script, listed) /\ Window \in Seq(Nat)
        BY <2>2, <2>4, <3>3, WindowNumbers DEF ListInv
      <4>2. op \in {"listMessages", "listMessageReferences"} /\ script \in Seq(ScriptSteps)
        BY <4>1 DEF Listing, PhaseInv
      <4>. QED
        BY <2>1, <4>1, <4>2, ListingAdvances DEF Command
    <3>. QED
      BY <2>1, <2>4, <3>1, <3>2, <3>3, BodyAdvances
  <2>. QED
    BY <2>1, <2>3, <2>4, Ahead
<1>4. ASSUME SucceedStat
      PROVE  ListInv'
  <2>. DEFINE limit == RequestedLimit
              N == RecentMessageNumbers(count', limit)
              s == ListingSteps(op, N)
  <2>1. /\ script # <<>> /\ Command = "STAT" /\ count' \in Nat
        /\ Advance(s) /\ UNCHANGED <<config, asked, session, listed>> /\ limit # 0
    BY <1>4, CountsAssumption DEF SucceedStat, Calling, Ready, given
  <2>2. AtStat /\ Accepted /\ result = Nothing /\ listed' = <<>>
    BY <2>1, Ahead DEF BodyCommands, AtGmail, GmailOperations, Accepted, ListInv
  <2>3. op \in {"listMessages", "listMessageReferences"} /\ session = "open"
    BY <2>2 DEF AtStat, Listing
  <2>4. limit \in Nat \ {0}
    BY <2>1, <2>2, LimitRequested
  <2>5. N \in Seq(Nat) /\ Len(N) = IF count' < limit THEN count' ELSE limit
    BY <2>1, <2>4, NumbersListed
  <2>6. s \in Seq(ScriptSteps) /\ Len(s) = Width(op) * Len(N) /\ (s # <<>> => Body(s))
    BY <2>1, <2>2, <2>3, <2>4, <2>5, ListingScript, ListingBody DEF AtStat
  <2>7. Underway(op, N, s, <<>>)
    BY <2>3, <2>5, ListingBegins
  <2>8. Window' = N
    BY <2>1 DEF Window, RequestedLimit
  <2>. HIDE DEF limit, N, s
  <2>9. CASE s = <<>>
    <3>1. script' = <<>>
      BY <2>1, <2>9 DEF Advance, Settle
    <3>2. count' = 0
      <4>1. Width(op) \in {2, 3} /\ Len(N) \in Nat /\ Width(op) * Len(N) = 0
        BY <2>5, <2>6, <2>9 DEF Width
      <4>2. Len(N) = 0
        BY <4>1
      <4>. QED
        BY <2>1, <2>4, <2>5, <4>2
    <3>3. ListsNewest'
      BY <3>2, NotNewest
    <3>. QED
      BY <2>1, <2>2, <3>1, <3>3, ListEnds
  <2>10. CASE s # <<>>
    <3>1. script' = s /\ op' = op /\ result' = result
      BY <2>1, <2>10 DEF Advance
    <3>2. ListsNewest'
      BY <2>2, <3>1, NotNewest, NothingAssumption
    <3>3. ~AtGmail' /\ ~AtConnect' /\ ~AtStat'
      BY <2>1, <2>3, <2>6, <2>10, <3>1, BodyWithoutStat DEF AtGmail, AtConnect, AtStat
    <3>. QED
      BY <2>1, <2>2, <2>3, <2>7, <2>8, <3>1, <3>2, <3>3 DEF ListInv, Accepted, Listing
  <2>. QED
    BY <2>9, <2>10
<1>5. ASSUME NEW c, NEW e, Settle(Report(ErrorCode(c), e)), script # <<>>, UNCHANGED <<config, count>>
      PROVE  ListInv'
  <2>1. Accepted /\ count' \in Nat
    BY <1>5, Ahead DEF Accepted, ListInv
  <2>2. script' = <<>> /\ result' = Report(ErrorCode(c), e)
    BY <1>5 DEF Settle
  <2>3. ListsNewest'
    BY <2>2, ReportsFail, NotNewest
  <2>. QED
    BY <1>5, <2>1, <2>2, <2>3, ListEnds
<1>6. ASSUME Garble
      PROVE  ListInv'
  <2>1. /\ script # <<>> /\ Command \in {"STAT", "UIDL", "LIST"} /\ UNCHANGED <<config, asked, session, count, listed>>
        /\ Command = "STAT" => Settle(Report(ErrorCode("STAT"), Malformation))
        /\ Command # "STAT" => Advance(Tail(script))
    BY <1>6 DEF Garble, Calling, Ready, given
  <2>2. CASE Command = "STAT"
    BY <1>5, <2>1, <2>2
  <2>3. CASE Command # "STAT"
    <3>1. AtBody /\ Accepted /\ count \in Nat
      BY <2>1, <2>3, Ahead DEF AtGmail, GmailOperations, Accepted, ListInv
    <3>2. Tail(script) # <<>>
      BY <2>1, <3>1, Ahead
    <3>3. script' = Tail(script) /\ op' = op /\ result' = result
      BY <2>1, <2>3, <3>2 DEF Advance
    <3>4. ASSUME count # 0
          PROVE  Underway(op, Window, Tail(script), listed')
      <4>1. Listing(op) /\ Underway(op, Window, script, listed) /\ Window \in Seq(Nat)
        BY <3>1, <3>4, WindowNumbers DEF ListInv
      <4>2. op \in {"listMessages", "listMessageReferences"} /\ script \in Seq(ScriptSteps)
        BY <4>1 DEF Listing, PhaseInv
      <4>. QED
        BY <2>1, <4>1, <4>2, ListingAdvances DEF Command
    <3>. QED
      BY <2>1, <3>1, <3>2, <3>3, <3>4, BodyAdvances
  <2>. QED
    BY <2>2, <2>3
<1>7. ASSUME Parse
      PROVE  ListInv'
  <2>1. /\ script # <<>> /\ Command = "parse" /\ UNCHANGED <<config, asked, session, count, garbled>>
        /\ \/ Settle(Report(ErrorCode("parse"), Malformation))
           \/ ~garbled /\ Advance(Tail(script)) /\ listed' = Append(listed, Head(script).number)
    BY <1>7, Zenon DEF Parse, Ready, given
  <2>2. CASE Settle(Report(ErrorCode("parse"), Malformation))
    BY <1>5, <2>1, <2>2
  <2>3. CASE ~garbled /\ Advance(Tail(script)) /\ listed' = Append(listed, Head(script).number)
    <3>1. AtBody /\ Accepted /\ count \in Nat
      BY <2>1, Ahead DEF AtGmail, GmailOperations, Accepted, ListInv
    <3>2. ASSUME count # 0
          PROVE  /\ op \in {"listMessages", "listMessageReferences"}
                 /\ Underway(op, Window, Tail(script), listed')
      <4>1. Listing(op) /\ Underway(op, Window, script, listed) /\ Window \in Seq(Nat)
        BY <3>1, <3>2, WindowNumbers DEF ListInv
      <4>2. op \in {"listMessages", "listMessageReferences"} /\ script \in Seq(ScriptSteps)
        BY <4>1 DEF Listing, PhaseInv
      <4>. QED
        BY <2>1, <2>3, <4>1, <4>2, ListingAdvances DEF Command
    <3>3. CASE Tail(script) = <<>>
      <4>1. script' = <<>> /\ result' = Success
        BY <2>3, <3>3 DEF Advance, Settle
      <4>2. CASE count = 0
        <5>1. ListsNewest'
          BY <2>1, <4>2, NotNewest
        <5>. QED
          BY <2>1, <3>1, <4>1, <5>1, ListEnds
      <4>3. CASE count # 0
        <5>1. listed' = Window
          BY <3>1, <3>2, <3>3, <4>3, WindowNumbers, ListingEnds
        <5>2. /\ Len(listed') = IF count < RequestedLimit THEN count ELSE RequestedLimit
              /\ \A i \in 1..Len(listed') : listed'[i] = count + 1 - i
          BY <3>1, <5>1, WindowNumbers
        <5>3. /\ Len(listed') \in {count, asked, config.POP3_MAX_MESSAGES_PER_RUN}
              /\ Len(listed') <= count /\ Len(listed') <= asked
              /\ Len(listed') <= config.POP3_MAX_MESSAGES_PER_RUN
          BY <3>1, <5>2, LimitRequested, AcceptedLimits DEF AskedInv
        <5>4. ListsNewest'
          BY <2>1, <2>3, <5>2, <5>3 DEF ListsNewest
        <5>. QED
          BY <2>1, <3>1, <4>1, <5>4, ListEnds
      <4>. QED
        BY <4>2, <4>3
    <3>4. CASE Tail(script) # <<>>
      <4>1. script' = Tail(script) /\ op' = op /\ result' = result
        BY <2>3, <3>4 DEF Advance
      <4>. QED
        BY <2>1, <3>1, <3>2, <3>4, <4>1, BodyAdvances
    <3>. QED
      BY <3>3, <3>4
  <2>. QED
    BY <2>1, <2>2, <2>3
<1>8. ASSUME NEW e \in Errors, Fail(e)
      PROVE  ListInv'
  <2>1. /\ script # <<>> /\ UNCHANGED <<config, asked, session, count, listed, garbled>>
        /\ \/ UNCHANGED <<op, script, result>>
           \/ Settle(Report(ErrorCode(Command), e))
    BY <1>8, Zenon DEF Fail, Calling, Ready, given, listing
  <2>2. CASE UNCHANGED <<op, script, result>>
    BY <2>1, <2>2 DEF ListInv, AtGmail, AtConnect, AtStat, AtBody, Window, RequestedLimit, Accepted, ListsNewest
  <2>3. CASE Settle(Report(ErrorCode(Command), e))
    BY <1>5, <2>1, <2>3
  <2>. QED
    BY <2>1, <2>2, <2>3
<1>9. ASSUME Quit
      PROVE  ListInv'
  <2>1. /\ op # Nothing /\ script' = <<>>
        /\ UNCHANGED <<config, asked, count, listed, garbled, result>>
    BY <1>9 DEF Quit, Leave, given, progress, listing
  <2>2. Accepted /\ count \in Nat /\ ListsNewest'
    BY <2>1 DEF PhaseInv, Accepted, ListInv, ListsNewest
  <2>. QED
    BY <2>1, <2>2, ListEnds
<1>10. ASSUME UNCHANGED <<config, asked, op, session, script, garbled, count, listed, result>>
       PROVE  ListInv'
  BY <1>10 DEF ListInv, AtGmail, AtConnect, AtStat, AtBody, Window, RequestedLimit, Accepted, ListsNewest
<1>11. ASSUME SkipListing
       PROVE  ListInv'
  <2>1. /\ script # <<>> /\ Command = "STAT" /\ script' = <<>> /\ UNCHANGED <<config, count>>
    BY <1>11 DEF SkipListing, Ready, Settle, given, listing
  <2>2. AtStat /\ Accepted
    BY <2>1, Ahead DEF BodyCommands, AtGmail, GmailOperations, Accepted
  <2>3. count' = 0
    BY <2>1, <2>2 DEF ListInv
  <2>4. ListsNewest'
    BY <2>3, NotNewest
  <2>. QED
    BY <2>1, <2>2, <2>3, <2>4, ListEnds
<1>12. \/ ReadConfiguration \/ Succeed \/ SucceedStat \/ SkipListing \/ Garble \/ Parse \/ Quit
       \/ \E o \in Operations : Begin(o)
       \/ \E e \in Errors : Fail(e)
       \/ UNCHANGED <<config, asked, op, session, script, garbled, count, listed, result>>
  BY Zenon DEF Next, OperationStep, Operations, Wait, vars, given, progress, listing
<1>. QED
  BY <1>1, <1>2, <1>3, <1>4, <1>6, <1>7, <1>8, <1>9, <1>10, <1>11, <1>12

\* A listing that succeeds is whole, in order and no longer than the limit
\* (NodePop3MailService.listMessages, buildRecentMessageNumbers).
THEOREM ListingsAreWhole == Spec => []ListsNewest
<1>1. Init => ListInv
  BY NothingAssumption DEF Init, ListInv, ListsNewest, AtGmail, AtConnect, AtStat, AtBody, Listing, Pop3Operations
<1>2. PhaseInv /\ ConfigurationSound /\ AskedInv /\ ListInv /\ [Next]_vars => ListInv'
  BY ListNext
<1>3. ListInv => ListsNewest
  BY DEF ListInv
<1>. QED
  BY <1>1, <1>2, <1>3, Phased, LimitsAsked, AcceptedConfigurationsAreSound, PTL DEF Spec
=============================================================================
