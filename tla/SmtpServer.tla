---------------------------- MODULE SmtpServer -----------------------------
(***************************************************************************)
(* The SMTP command handler (src/service/smtp.cpp) of one session.  An     *)
(* address is only told by when it was given: in the transaction that the  *)
(* last accepted MAIL began, or before it.  Nothing handles the text after *)
(* DATA: its lines come back as commands.                                  *)
(***************************************************************************)
EXTENDS Naturals

VARIABLES smtp,  \* session.state
          from,  \* session.mail_from
          rcpt   \* session.rcpt_to

smtpVars == <<smtp, from, rcpt>>

Address == {"none", "current", "old"}

SmtpTypeOK == /\ smtp \in {"INIT", "GREETED", "MAIL", "RCPT", "DATA", "DONE"}
              /\ from \in Address
              /\ rcpt \in Address

SmtpInit == /\ smtp = "INIT"
            /\ from = "none"
            /\ rcpt = "none"

Helo == /\ smtp = "INIT"
        /\ smtp' = "GREETED"
        /\ UNCHANGED <<from, rcpt>>

\* A new transaction: the recipient of the one before is still there.
Mail == /\ smtp \in {"GREETED", "DONE"}
        /\ smtp' = "MAIL"
        /\ from' = "current"
        /\ rcpt' = IF rcpt = "current" THEN "old" ELSE rcpt

\* variant: keeps a recipient that is there already
FirstRecipient == IF rcpt = "none" THEN "current" ELSE rcpt

\* The recipient after RCPT, the last one given.
Recipient == "current"

Rcpt == /\ smtp \in {"MAIL", "RCPT"}
        /\ smtp' = "RCPT"
        /\ rcpt' = Recipient
        /\ UNCHANGED from

Data == /\ smtp = "RCPT"
        /\ smtp' = "DATA"
        /\ UNCHANGED <<from, rcpt>>

Quit == /\ smtp' = "DONE"
        /\ UNCHANGED <<from, rcpt>>

Rset == /\ smtp' = "GREETED"
        /\ from' = "none"
        /\ rcpt' = "none"

\* A command out of sequence (503) or one that is not known (500).
Rejected == UNCHANGED smtpVars

SmtpStep == Helo \/ Mail \/ Rcpt \/ Data \/ Quit \/ Rset \/ Rejected

----------------------------------------------------------------------------
\* The envelope of a message is the one its own MAIL and RCPT gave: an address
\* of an earlier transaction, which QUIT and a new MAIL leave in the session,
\* never reaches DATA (smtp.cpp:109-129).
EnvelopeIsCurrent == smtp \in {"RCPT", "DATA"} => from = "current" /\ rcpt = "current"
=============================================================================
