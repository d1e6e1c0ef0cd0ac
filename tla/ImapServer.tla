----------------------------- MODULE ImapServer ----------------------------
(***************************************************************************)
(* The IMAP command handler (src/service/imap.cpp) of several sessions     *)
(* over one mail store.  A command that changes no session and says        *)
(* nothing of the store is one of Other's.  The tag is left out.           *)
(***************************************************************************)
EXTENDS MailStore

CONSTANTS Sessions,   \* IMAP sessions
          NoMailbox,  \* the empty selected_mailbox
          Limit       \* the size of the array that list() fills: 100

ASSUME ImapAssumption == NoMailbox \notin Names /\ Limit \in Nat

VARIABLE imap  \* the sessions, each with the answer to its last command

\* An answer counts messages (EXISTS), carries one (the uid), carries a message
\* that nobody sent, or none.
NoAnswer == [kind |-> "none"]
Blank == [kind |-> "blank"]
Answers == {NoAnswer, Blank} \cup [kind : {"exists"}, count : Nat] \cup [kind : {"fetch"}, uid : Nat]
Session == [state    : {"NOT_AUTH", "AUTH", "SELECTED", "LOGOUT"},
            selected : Names \cup {NoMailbox},
            answer   : Answers]

ImapTypeOK == imap \in [Sessions -> Session]
ImapInit == imap = [s \in Sessions |-> [state    |-> "NOT_AUTH",
                                        selected |-> NoMailbox,
                                        answer   |-> NoAnswer]]

----------------------------------------------------------------------------
\* LOGIN with a user and a password, whatever they are, in any state.
Login(s) == /\ imap' = [imap EXCEPT ![s].state = "AUTH", ![s].answer = NoAnswer]
            /\ UNCHANGED storeVars

\* CAPABILITY, LIST, an unknown command, or one that is answered with BAD: a
\* LOGIN without a password, LIST or SELECT before LOGIN, FETCH before SELECT.
Other(s) == /\ imap' = [imap EXCEPT ![s].answer = NoAnswer]
            /\ UNCHANGED storeVars

\* variant: reads the mailbox of the session before it is set
CountedBefore(s, name) == imap[s].selected

\* The name that SELECT counts the messages of.
Counted(s, name) == name

\* list() fails when the store is down and leaves the count as it was.
Select(s, name) ==
  /\ imap[s].state # "NOT_AUTH"
  /\ imap' = [imap EXCEPT ![s] =
                [state    |-> "SELECTED",
                 selected |-> Stored(name),
                 answer   |-> [kind  |-> "exists",
                               count |-> IF store = "down" THEN Limit
                                         ELSE Cardinality(ListMail(Counted(s, name), Limit))]]]
  /\ UNCHANGED storeVars

\* The oldest message, whatever sequence the client asked for.  With the store
\* down, list() leaves the array as it was built: a message without a body.
FetchAnswer(s) ==
  LET listed == ListMail(imap[s].selected, Limit)
  IN  IF store = "down" THEN Blank
      ELSE IF listed = {} THEN NoAnswer
      ELSE [kind |-> "fetch",
            uid  |-> messages[CHOOSE i \in listed : \A j \in listed : i <= j].uid]

Fetch(s) == /\ imap[s].state = "SELECTED"
            /\ imap' = [imap EXCEPT ![s].answer = FetchAnswer(s)]
            /\ UNCHANGED storeVars

Logout(s) == /\ imap' = [imap EXCEPT ![s].state = "LOGOUT", ![s].answer = NoAnswer]
             /\ UNCHANGED storeVars

ImapStep(s) == \/ Login(s)
               \/ Other(s)
               \/ \E name \in Names : Select(s, name)
               \/ Fetch(s)
               \/ Logout(s)

----------------------------------------------------------------------------
\* What SELECT announces is what FETCH then finds ("Count messages in mailbox",
\* imap.cpp:189), although one compares the name that came with the command and
\* the other the one in the session.  It is so for names that need no cutting
\* and while the store is up: a SELECT with the store down announces Limit.
ExistsAgreesWithFetch ==
  [][\A s \in Sessions, name \in Names \ LongNames :
       store = "up" /\ Select(s, name) =>
         (imap'[s].answer.count = 0 <=> FetchAnswer(s)' = NoAnswer)]_<<storeVars, imap>>
=============================================================================
