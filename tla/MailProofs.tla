---------------------------- MODULE MailProofs -----------------------------
(***************************************************************************)
(* What the mail services of one process keep to, for every number of      *)
(* sessions, names and messages: generated ids are unique over all         *)
(* restarts of the store, stored mail stays as it is, SELECT announces     *)
(* what FETCH finds, and no envelope mixes two transactions.               *)
(*                                                                         *)
(* The ids in use say nothing of the ids that were ever given out, since   *)
(* cleanup forgets the messages: the invariant is about the ghost that     *)
(* remembers them, and the counter that has passed them all.               *)
(***************************************************************************)
EXTENDS MailSystem, FiniteSetTheorems, SequenceTheorems, TLAPS

IdsPassed == \A p \in issued : p.id < counter

(* A transaction goes from MAIL to RCPT, so that a sender is there.        *)
SenderIsCurrent == smtp = "MAIL" => from = "current"

MailInv ==
  /\ StoreTypeOK
  /\ IdsPassed
  /\ GeneratedIdsUnique
  /\ SmtpTypeOK
  /\ SenderIsCurrent
  /\ EnvelopeIsCurrent
  /\ DOMAIN imap = Sessions

----------------------------------------------------------------------------

LEMMA MailInit == Init => MailInv
<1> SUFFICES ASSUME Init PROVE MailInv
  OBVIOUS
<1>1. messages \in Seq(Message) /\ Len(messages) = 0
  BY DEF Init, StoreInit
<1>2. StoreTypeOK /\ IdsPassed /\ GeneratedIdsUnique
  BY <1>1, MailAssumption DEF Init, StoreInit, StoreTypeOK, IdsPassed, GeneratedIdsUnique
<1>3. SmtpTypeOK /\ SenderIsCurrent /\ EnvelopeIsCurrent
  BY DEF Init, SmtpInit, SmtpTypeOK, SenderIsCurrent, EnvelopeIsCurrent, Address
<1> QED
  BY <1>2, <1>3 DEF Init, ImapInit, MailInv

----------------------------------------------------------------------------

StoreInv == StoreTypeOK /\ IdsPassed /\ GeneratedIdsUnique

(* A new message is one more, behind those that are there.                 *)
LEMMA AppendedAre ==
  ASSUME StoreTypeOK, NEW name \in Names, NEW id \in GivenIds \cup Nat \cup {NoId},
         AppendMail(name, id)
  PROVE  /\ messages' \in Seq(Message)
         /\ Len(messages') = Len(messages) + 1
         /\ \A i \in 1 .. Len(messages) : messages'[i] = messages[i]
<1> DEFINE new == [uid     |-> appended,
                   id      |-> IF id = NoId THEN Counter ELSE id,
                   mailbox |-> Stored(name),
                   deleted |-> "no"]
           n == Len(messages) + 1
<1>1. Stored(name) \in Names
  BY MailAssumption DEF Stored
<1>2. appended \in Nat /\ Counter \in Nat
  BY DEF StoreTypeOK, Counter
<1>3. new \in Message
  BY <1>1, <1>2 DEF Message
<1>4. n \in Nat /\ 1 .. Len(messages) \cup {n} = 1 .. n /\ Len(messages) \in Nat
  BY DEF StoreTypeOK
<1>5. \A i \in 1 .. Len(messages) : i # n /\ i \in 1 .. n /\ messages[i] \in Message
  BY <1>4 DEF StoreTypeOK
<1>6. messages' = [i \in 1 .. n |-> IF i # n THEN messages[i] ELSE new]
  BY <1>4 DEF AppendMail, Place
<1> HIDE DEF new, n
<1>7. \A i \in 1 .. n : (IF i # n THEN messages[i] ELSE new) \in Message
  <2> SUFFICES ASSUME NEW i \in 1 .. n, i # n PROVE messages[i] \in Message
    BY <1>3
  <2>1. i \in 1 .. Len(messages)
    BY <1>4 DEF n
  <2> QED
    BY <1>5, <2>1
<1>8. messages' \in Seq(Message) /\ Len(messages') = n
  BY <1>4, <1>6, <1>7
<1>9. \A i \in 1 .. Len(messages) : messages'[i] = messages[i]
  BY <1>5, <1>6
<1> QED
  BY <1>8, <1>9 DEF n

LEMMA AppendKeeps ==
  ASSUME StoreInv, NEW name \in Names, NEW id \in GivenIds \cup Nat \cup {NoId},
         AppendMail(name, id)
  PROVE  StoreInv'
<1>1. /\ messages' \in Seq(Message)
      /\ Len(messages') = Len(messages) + 1
  BY AppendedAre DEF StoreInv
<1>2. /\ store' = store
      /\ appended' = appended + 1
      /\ Len(messages) \in Nat /\ Len(messages) < MaxMessages
      /\ appended \in Nat /\ counter \in Nat /\ counter <= appended
      /\ issued \subseteq [uid : Nat, id : Nat]
  BY MailAssumption DEF AppendMail, Full, StoreInv, StoreTypeOK
<1>3. CASE id = NoId
  <2> DEFINE p == [uid |-> appended, id |-> counter]
  <2>1. counter' = counter + 1 /\ issued' = issued \cup {p}
    BY <1>3 DEF AppendMail, Counter
  <2>2. p \in [uid : Nat, id : Nat] /\ p.id = counter
    BY <1>2
  <2> HIDE DEF p
  <2>3. \A q \in issued : q.id \in Nat /\ q.id < counter
    BY <1>2 DEF StoreInv, IdsPassed
  <2>4. IdsPassed'
    BY <1>2, <2>1, <2>2, <2>3 DEF IdsPassed
  <2>5. GeneratedIdsUnique'
    BY <1>2, <2>1, <2>2, <2>3 DEF StoreInv, GeneratedIdsUnique
  <2>6. StoreTypeOK'
    BY <1>1, <1>2, <2>1, <2>2, MailAssumption DEF StoreInv, StoreTypeOK
  <2> QED
    BY <2>4, <2>5, <2>6 DEF StoreInv
<1>4. CASE id # NoId
  <2>1. UNCHANGED <<counter, issued>>
    BY <1>4 DEF AppendMail
  <2> QED
    BY <1>1, <1>2, <2>1, MailAssumption
       DEF StoreInv, StoreTypeOK, IdsPassed, GeneratedIdsUnique
<1> QED
  BY <1>3, <1>4

(* A removed message is marked, and the others stay.                       *)
LEMMA RemovedAre ==
  ASSUME StoreTypeOK, NEW i \in 1 .. Len(messages),
         messages' = [messages EXCEPT ![i].deleted = "yes"]
  PROVE  /\ messages' \in Seq(Message)
         /\ Len(messages') = Len(messages)
         /\ \A j \in 1 .. Len(messages) :
               messages'[j] \in {messages[j], [messages[j] EXCEPT !.deleted = "yes"]}
<1>1. messages \in Seq(Message)
  BY DEF StoreTypeOK
<1>2. \A m \in Message : [m EXCEPT !.deleted = "yes"] \in Message
  BY DEF Message
<1>3. messages[i] \in Message
  BY <1>1
<1> DEFINE new == [messages[i] EXCEPT !.deleted = "yes"]
<1>4. new \in Message /\ messages' = [messages EXCEPT ![i] = new]
  BY <1>2, <1>3
<1> HIDE DEF new
<1>5. messages' \in Seq(Message) /\ Len(messages') = Len(messages)
  BY <1>1, <1>4
<1>6. \A j \in 1 .. Len(messages) : messages'[j] = IF j = i THEN new ELSE messages[j]
  BY <1>1, <1>4
<1> QED
  BY <1>5, <1>6 DEF new

LEMMA KnownIdsAre ==
  ASSUME StoreTypeOK
  PROVE  KnownIds \subseteq GivenIds \cup Nat
<1>1. \A i \in 1 .. Len(messages) : messages[i] \in Message
  BY DEF StoreTypeOK
<1>2. \A m \in Message : m.id \in GivenIds \cup Nat
  BY DEF Message
<1> QED
  BY <1>1, <1>2 DEF KnownIds

LEMMA StoreKeeps == ASSUME StoreInv, StoreStep PROVE StoreInv'
<1>1. CASE UNCHANGED storeVars
  BY <1>1 DEF storeVars, StoreInv, StoreTypeOK, IdsPassed, GeneratedIdsUnique
<1>2. CASE InitStore \/ Cleanup
  <2>1. /\ store' \in {"up", "down"}
        /\ messages' \in {messages, <<>>}
        /\ UNCHANGED <<counter, appended, issued>>
    BY <1>2 DEF InitStore, Cleanup
  <2>2. messages' \in Seq(Message) /\ Len(messages') <= MaxMessages
    <3>1. CASE messages' = messages
      BY <3>1 DEF StoreInv, StoreTypeOK
    <3>2. CASE messages' = <<>>
      <4>1. messages' \in Seq(Message) /\ Len(messages') = 0
        BY <3>2
      <4> QED
        BY <4>1, MailAssumption
    <3> QED
      BY <2>1, <3>1, <3>2
  <2> QED
    BY <2>1, <2>2 DEF StoreInv, StoreTypeOK, IdsPassed, GeneratedIdsUnique
<1>3. ASSUME NEW name \in Names, NEW id \in KnownIds \cup {NoId}, AppendMail(name, id)
      PROVE  StoreInv'
  <2>1. id \in GivenIds \cup Nat \cup {NoId}
    BY KnownIdsAre DEF StoreInv
  <2> QED
    BY <1>3, <2>1, AppendKeeps
<1>4. ASSUME NEW name \in Names, NEW id \in KnownIds, RemoveMail(name, id)
      PROVE  StoreInv'
  <2>1. PICK i \in 1 .. Len(messages) : messages' = [messages EXCEPT ![i].deleted = "yes"]
    BY <1>4 DEF RemoveMail, Found, InMailbox
  <2>2. messages' \in Seq(Message) /\ Len(messages') = Len(messages)
    BY <2>1, RemovedAre DEF StoreInv
  <2> QED
    BY <1>4, <2>2 DEF RemoveMail, StoreInv, StoreTypeOK, IdsPassed, GeneratedIdsUnique
<1>5. Outbox \in Names
  BY OutboxAssumption
<1> QED
  BY <1>1, <1>2, <1>3, <1>4, <1>5 DEF StoreStep, QueueMail, AppendRefused, RemoveRefused

----------------------------------------------------------------------------

SmtpInv == SmtpTypeOK /\ SenderIsCurrent /\ EnvelopeIsCurrent

LEMMA SmtpKeeps == ASSUME SmtpInv, SmtpStep \/ UNCHANGED smtpVars PROVE SmtpInv'
<1> USE DEF SmtpInv, SmtpTypeOK, SenderIsCurrent, EnvelopeIsCurrent, Address
<1>1. CASE Helo
  BY <1>1 DEF Helo
<1>2. CASE Mail
  BY <1>2 DEF Mail
<1>3. CASE Rcpt
  BY <1>3 DEF Rcpt, Recipient
<1>4. CASE Data
  BY <1>4 DEF Data
<1>5. CASE Quit
  BY <1>5 DEF Quit
<1>6. CASE Rset
  BY <1>6 DEF Rset
<1>7. CASE UNCHANGED smtpVars
  BY <1>7 DEF smtpVars
<1> QED
  BY <1>1, <1>2, <1>3, <1>4, <1>5, <1>6, <1>7 DEF SmtpStep, Rejected

LEMMA ImapKeeps ==
  ASSUME NEW s \in Sessions, ImapStep(s), DOMAIN imap = Sessions
  PROVE  UNCHANGED storeVars /\ DOMAIN imap' = Sessions
  BY DEF ImapStep, Login, Other, Select, Fetch, Logout

LEMMA MailStep == MailInv /\ [Next]_vars => MailInv'
<1> SUFFICES ASSUME MailInv, [Next]_vars PROVE MailInv'
  OBVIOUS
<1>1. StoreInv'
  <2>1. CASE StoreStep
    BY <2>1, StoreKeeps DEF MailInv, StoreInv
  <2>2. CASE UNCHANGED storeVars
    BY <2>2 DEF MailInv, StoreInv, storeVars, StoreTypeOK, IdsPassed, GeneratedIdsUnique
  <2> QED
    BY <2>1, <2>2, ImapKeeps DEF Next, vars, MailInv
<1>2. SmtpInv'
  BY SmtpKeeps DEF Next, vars, MailInv, SmtpInv
<1>3. DOMAIN imap' = Sessions
  BY ImapKeeps DEF Next, vars, MailInv
<1> QED
  BY <1>1, <1>2, <1>3 DEF MailInv, StoreInv, SmtpInv

THEOREM MailInvariant == Spec => []MailInv
<1>1. Init => MailInv
  BY MailInit
<1>2. MailInv /\ [Next]_vars => MailInv'
  BY MailStep
<1> QED
  BY <1>1, <1>2, PTL DEF Spec

(* No id is generated twice, over any number of cleanups and inits, because *)
(* the counter is the process's and not the store's (service/mail.cpp).    *)
THEOREM MailGeneratedIdsUnique == Spec => []GeneratedIdsUnique
<1>1. MailInv => GeneratedIdsUnique
  BY DEF MailInv
<1> QED
  BY <1>1, MailInvariant, PTL

(* DATA is reached only with the sender and the recipient of the           *)
(* transaction in progress (service/smtp.cpp).                             *)
THEOREM MailEnvelopeIsCurrent == Spec => []EnvelopeIsCurrent
<1>1. MailInv => EnvelopeIsCurrent
  BY DEF MailInv
<1> QED
  BY <1>1, MailInvariant, PTL

----------------------------------------------------------------------------

LEMMA HistoryStep ==
  ASSUME MailInv, StoreStep \/ UNCHANGED storeVars, store = "up", store' = "up",
         NEW i \in 1 .. Len(messages)
  PROVE  /\ i <= Len(messages')
         /\ messages'[i] \in {messages[i], [messages[i] EXCEPT !.deleted = "yes"]}
<1>1. Len(messages) \in Nat
  BY DEF MailInv, StoreTypeOK
<1>2. CASE messages' = messages
  BY <1>1, <1>2
<1>3. ASSUME NEW name \in Names, NEW id \in KnownIds \cup {NoId}, AppendMail(name, id)
      PROVE  i <= Len(messages') /\ messages'[i] = messages[i]
  <2>1. id \in GivenIds \cup Nat \cup {NoId}
    BY KnownIdsAre DEF MailInv
  <2> QED
    BY <1>1, <1>3, <2>1, AppendedAre DEF MailInv
<1>4. ASSUME NEW name \in Names, NEW id \in KnownIds, RemoveMail(name, id)
      PROVE  /\ i <= Len(messages')
             /\ messages'[i] \in {messages[i], [messages[i] EXCEPT !.deleted = "yes"]}
  <2>1. PICK j \in 1 .. Len(messages) : messages' = [messages EXCEPT ![j].deleted = "yes"]
    BY <1>4 DEF RemoveMail, Found, InMailbox
  <2> QED
    BY <1>1, <2>1, RemovedAre DEF MailInv
<1>5. Outbox \in Names
  BY OutboxAssumption
<1>6. InitStore \/ Cleanup \/ UNCHANGED storeVars => messages' = messages
  BY DEF InitStore, Cleanup, storeVars
<1> QED
  BY <1>2, <1>3, <1>4, <1>5, <1>6 DEF StoreStep, QueueMail, AppendRefused, RemoveRefused

(* A stored message stays in its place, at most marked as deleted, until   *)
(* the store is cleaned up: append fills only a new place, and remove only *)
(* marks (service/mail.cpp).                                               *)
THEOREM MailHistoryStable == Spec => HistoryStable
<1> DEFINE Kept == store = "up" /\ store' = "up" =>
                     \A i \in 1 .. Len(messages) :
                       /\ i <= Len(messages')
                       /\ messages'[i] \in {messages[i], [messages[i] EXCEPT !.deleted = "yes"]}
<1>1. MailInv /\ [Next]_vars => [Kept]_storeVars
  <2> SUFFICES ASSUME MailInv, [Next]_vars PROVE Kept
    OBVIOUS
  <2>1. StoreStep \/ UNCHANGED storeVars
    BY ImapKeeps DEF Next, vars, MailInv
  <2> QED
    BY <2>1, HistoryStep
<1> QED
  BY <1>1, MailInvariant, PTL DEF Spec, HistoryStable

(* SELECT of a name that needs no cutting announces messages exactly if    *)
(* FETCH then finds one: both look under that name (service/imap.cpp).     *)
THEOREM MailExistsAgreesWithFetch == Spec => ExistsAgreesWithFetch
<1> DEFINE Agrees == \A s \in Sessions, name \in Names \ LongNames :
                       store = "up" /\ Select(s, name) =>
                         (imap'[s].answer.count = 0 <=> FetchAnswer(s)' = NoAnswer)
<1>1. MailInv => Agrees
  <2> SUFFICES ASSUME MailInv, NEW s \in Sessions, NEW name \in Names \ LongNames,
                      store = "up", Select(s, name)
               PROVE  imap'[s].answer.count = 0 <=> FetchAnswer(s)' = NoAnswer
    OBVIOUS
  <2> DEFINE listed == ListMail(name, Limit)
  <2>1. /\ imap'[s].answer.count = Cardinality(listed)
        /\ imap'[s].selected = name
        /\ UNCHANGED <<store, messages>>
    BY DEF Select, MailInv, Counted, Stored, storeVars
  <2>2. IsFiniteSet(listed)
    <3>1. listed \subseteq 1 .. Len(messages) /\ Len(messages) \in Nat
      BY DEF ListMail, InMailbox, MailInv, StoreTypeOK
    <3>2. IsFiniteSet(1 .. Len(messages))
      BY <3>1, FS_Interval
    <3> QED
      BY <3>1, <3>2, FS_Subset
  <2>3. Cardinality(listed) = 0 <=> listed = {}
    BY <2>2, FS_EmptySet
  <2>4. ListMail(imap[s].selected, Limit)' = listed
    BY <2>1 DEF ListMail, InMailbox
  <2> HIDE DEF listed
  <2>5. FetchAnswer(s)' = NoAnswer <=> listed = {}
    <3> DEFINE found == [kind |-> "fetch",
                         uid  |-> messages'[CHOOSE i \in listed : \A j \in listed : i <= j].uid]
    <3>1. FetchAnswer(s)' = IF listed = {} THEN NoAnswer ELSE found
      BY <2>1, <2>4 DEF FetchAnswer
    <3>2. found.kind = "fetch" /\ NoAnswer.kind = "none"
      BY DEF NoAnswer
    <3> HIDE DEF found
    <3> QED
      BY <3>1, <3>2
  <2> QED
    BY <2>1, <2>3, <2>5
<1>2. MailInv /\ [Next]_vars => [Agrees]_<<storeVars, imap>>
  BY <1>1
<1> QED
  BY <1>2, MailInvariant, PTL DEF Spec, ExistsAgreesWithFetch
=============================================================================
