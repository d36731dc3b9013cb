---------------------------- MODULE MCMailServices ----------------------------
(***************************************************************************)
(* MailServices for TLC: environments and local files with the defects and *)
(* the boundary values the reader of the configuration tells apart.        *)
(***************************************************************************)
EXTENDS MailServices, TLC

Complete ==
  [n \in Names |->
     CASE n = "POP3_MAX_MESSAGES_PER_RUN" -> 2
       [] n = "POP3_PORT"                 -> 65535
       [] n = "POP3_TIMEOUT_MS"           -> 1000
       [] n = "GMAIL_TIMEOUT_MS"          -> 1000
       [] n = "GMAIL_MAX_IMPORT_RETRIES"  -> 1
       [] n \in Optionals                 -> Unset
       [] OTHER                           -> Text]

MCEnvironments ==
  {Complete,
   [Complete EXCEPT !.GMAIL_MAX_IMPORT_RETRIES = 0, !.POP3_MAX_MESSAGES_PER_RUN = 1],
   [Complete EXCEPT !.GMAIL_MAX_IMPORT_RETRIES = 10, !.GMAIL_TIMEOUT_MS = 120000],
   [Complete EXCEPT !.GMAIL_MAX_IMPORT_RETRIES = 11],
   [Complete EXCEPT !.POP3_TIMEOUT_MS = Blank, !.UIDL_RETENTION_DAYS = Blank],
   [Complete EXCEPT !.POP3_TIMEOUT_MS = Unset, !.UIDL_RETENTION_DAYS = 3650],
   [Complete EXCEPT !.POP3_PORT = Malformed],
   [Complete EXCEPT !.APP_FIREBASE_PROJECT_ID = Unset, !.FIREBASE_PROJECT_ID = Unset,
                    !.GCLOUD_PROJECT = Unset, !.GOOGLE_CLOUD_PROJECT = Unset,
                    !.GCP_PROJECT = Blank]}

Empty == [n \in Names |-> Unset]
MCFiles ==
  {Empty,
   [Empty EXCEPT !.POP3_TIMEOUT_MS = 120000, !.UIDL_RETENTION_DAYS = 1, !.POP3_PORT = 1,
                 !.GCP_PROJECT = Text],
   [Empty EXCEPT !.UIDL_CLEANUP_BATCH_SIZE = Blank],
   [Empty EXCEPT !.UIDL_MINIMUM_RETAINED_COUNT = 99]}
=============================================================================
