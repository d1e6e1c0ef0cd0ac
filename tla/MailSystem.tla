---------------------------- MODULE MailSystem -----------------------------
(***************************************************************************)
(* One process that runs the mail services of the library: an SMTP         *)
(* session, IMAP sessions, the SMTP client, which only queues, and other   *)
(* callers of the mail store that they share.                              *)
(***************************************************************************)
EXTENDS ImapServer, SmtpServer

CONSTANT Outbox  \* the mailbox of smtp_client_queue

ASSUME OutboxAssumption == Outbox \in Names \ LongNames

vars == <<storeVars, smtpVars, imap>>

TypeOK == StoreTypeOK /\ ImapTypeOK /\ SmtpTypeOK

Init == StoreInit /\ ImapInit /\ SmtpInit

\* smtp_client_send and smtp_client_queue append to the outbox.
QueueMail(id) == AppendMail(Outbox, id)

\* A caller may append a message that it fetched, id and all.
KnownIds == GivenIds \cup {messages[i].id : i \in 1..Len(messages)}

StoreStep == \/ InitStore
             \/ Cleanup
             \/ AppendRefused
             \/ RemoveRefused
             \/ \E id \in KnownIds \cup {NoId} :
                   QueueMail(id) \/ \E name \in Names : AppendMail(name, id)
             \/ \E id \in KnownIds, name \in Names : RemoveMail(name, id)

Next == \/ StoreStep /\ UNCHANGED <<imap, smtpVars>>
        \/ (\E s \in Sessions : ImapStep(s)) /\ UNCHANGED smtpVars
        \/ SmtpStep /\ UNCHANGED <<storeVars, imap>>

Spec == Init /\ [][Next]_vars

----------------------------------------------------------------------------
\* A session that ended has ended: QUIT is "End session" (smtp.cpp:16), LOGOUT
\* is "Close connection" (imap.cpp:16), and the state machines at smtp.cpp:8 and
\* imap.cpp:8 go no further than DONE and LOGOUT.  Spec does not have this property:
\* the handlers ask for the state only where a command needs it.
EndedStaysEnded ==
  [][/\ smtp = "DONE" => smtp' = "DONE"
     /\ \A s \in Sessions : imap[s].state = "LOGOUT" => imap'[s].state = "LOGOUT"]_vars
=============================================================================
