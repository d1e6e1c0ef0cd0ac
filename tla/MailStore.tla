----------------------------- MODULE MailStore -----------------------------
(***************************************************************************)
(* The in-memory mail store (src/service/mail.cpp): an array of messages   *)
(* that append fills and remove only marks, until cleanup and init start   *)
(* it afresh.                                                              *)
(*                                                                         *)
(* A mailbox name of 64 characters or more is cut to 63 when a message is  *)
(* stored and when a session selects it, and compared as it is elsewhere:  *)
(* LongNames are such names, and Cut is what each of them is cut to.       *)
(* A generated id is a timestamp and a counter; the counter, which never   *)
(* returns to 0 while the process runs, is what tells two of them apart,   *)
(* and is all the model keeps.  Sender, subject and body are left out; uid *)
(* numbers the messages over all time and is no part of the program.       *)
(***************************************************************************)
EXTENDS Integers, Sequences, FiniteSets

CONSTANTS Names,        \* mailbox names that callers use
          LongNames,    \* those of them that are too long to store
          Cut,          \* what a long name is cut to
          GivenIds,     \* ids that callers make up
          NoId,         \* the empty id
          MaxMessages,  \* MAX_MESSAGES: 1000
          MaxAppends    \* bound on the messages appended over all time

ASSUME MailAssumption == /\ LongNames \subseteq Names
                         /\ Cut \in Names \ LongNames
                         /\ NoId \notin GivenIds
                         /\ GivenIds \cap Nat = {}
                         /\ MaxMessages \in Nat

VARIABLES store,     \* initialized: "up" or "down"
          messages,  \* messages[0 .. message_count)
          counter,   \* generate_message_id's counter
          appended,  \* ghost: how many messages were ever appended
          issued     \* ghost: the ids ever generated, each with its message's uid

storeVars == <<store, messages, counter, appended, issued>>

Stored(name) == IF name \in LongNames THEN Cut ELSE name

Message == [uid     : Nat,
            id      : GivenIds \cup Nat,
            mailbox : Names,
            deleted : {"no", "yes"}]

StoreTypeOK == /\ store \in {"up", "down"}
               /\ messages \in Seq(Message)
               /\ Len(messages) <= MaxMessages
               /\ counter \in 0..appended
               /\ appended \in Nat
               /\ issued \subseteq [uid : Nat, id : Nat]

StoreInit == /\ store = "down"
             /\ messages = <<>>
             /\ counter = 0
             /\ appended = 0
             /\ issued = {}

----------------------------------------------------------------------------
\* variant: numbers the messages of the store, from 0 after each init
CounterOfStore == Len(messages)

\* The counter of the next generated id.
Counter == counter

InitStore == /\ IF store = "up" THEN UNCHANGED messages ELSE messages' = <<>>
             /\ store' = "up"
             /\ UNCHANGED <<counter, appended, issued>>

Cleanup == /\ store' = "down"
           /\ messages' = <<>>
           /\ UNCHANGED <<counter, appended, issued>>

Full == Len(messages) >= MaxMessages

AppendRefused == /\ store = "down" \/ Full
                 /\ UNCHANGED storeVars

\* variant: takes the place of a removed message
ReusedPlace ==
  LET removed == {i \in 1..Len(messages) : messages[i].deleted = "yes"}
  IN  IF removed = {} THEN Len(messages) + 1 ELSE CHOOSE i \in removed : TRUE

\* Where a new message goes.
Place == Len(messages) + 1

AppendMail(name, id) ==
  /\ store = "up"
  /\ ~Full
  /\ appended < MaxAppends
  /\ messages' = [i \in 1..Len(messages) \cup {Place} |->
                    IF i # Place THEN messages[i]
                    ELSE [uid     |-> appended,
                          id      |-> IF id = NoId THEN Counter ELSE id,
                          mailbox |-> Stored(name),
                          deleted |-> "no"]]
  /\ IF id = NoId
     THEN /\ counter' = Counter + 1
          /\ issued' = issued \cup {[uid |-> appended, id |-> Counter]}
     ELSE UNCHANGED <<counter, issued>>
  /\ appended' = appended + 1
  /\ UNCHANGED store

\* The messages that list() finds under a name, compared uncut, oldest first,
\* up to a limit.
InMailbox(name) == {i \in 1..Len(messages) : /\ messages[i].deleted = "no"
                                             /\ messages[i].mailbox = name}
ListMail(name, limit) ==
  {i \in InMailbox(name) : Cardinality({j \in InMailbox(name) : j < i}) < limit}

\* What fetch() and remove() find: the first match.
Found(name, id) == {i \in InMailbox(name) :
                      /\ messages[i].id = id
                      /\ \A j \in InMailbox(name) : messages[j].id = id => i <= j}

RemoveMail(name, id) ==
  /\ store = "up"
  /\ \E i \in Found(name, id) : messages' = [messages EXCEPT ![i].deleted = "yes"]
  /\ UNCHANGED <<store, counter, appended, issued>>

RemoveRefused == UNCHANGED storeVars  \* the store is down or nothing is found

----------------------------------------------------------------------------
\* "Generate unique message ID" (mail.cpp:42): no id is generated twice, also
\* over cleanup and init, so that an id which a client remembers from before
\* does not come to mean another message.
GeneratedIdsUnique == \A p, q \in issued : p.id = q.id => p = q

\* What is stored stays as it was, id included ("locally generated, stable",
\* mail.h:34), at most marked as deleted and never brought back, until the store
\* is cleaned up: a client may use an id it was shown whatever others do.
HistoryStable ==
  [][store = "up" /\ store' = "up" =>
       \A i \in 1..Len(messages) :
          /\ i <= Len(messages')
          /\ messages'[i] \in {messages[i], [messages[i] EXCEPT !.deleted = "yes"]}]_storeVars
=============================================================================
