---------------------------- MODULE HttpProofs -----------------------------
(***************************************************************************)
(* Every answer of the file server is right, for every size of the static  *)
(* buffer, every set of files and every length of them, however the reads  *)
(* of one file interleave with what other processes do to the disk.        *)
(*                                                                         *)
(* The static buffer holds what is left of files served before.  What is   *)
(* handed out of it is only what this request has read: the part up to     *)
(* count is of the file that is open, and a body is built when count has   *)
(* reached the size.                                                       *)
(***************************************************************************)
EXTENDS HttpServer, SequenceTheorems, TLAPS

Unit == [of : Names \cup {None}, version : Nat]

(* A content that is the named file's from end to end.                     *)
Marked(s, name) == s \in Seq(Unit) /\ \A i \in 1..Len(s) : s[i].of = name

DiskOK == /\ changes \in Nat
          /\ \A name \in Names : /\ IsFile(disk[name]) => Marked(disk[name], name)
                                 /\ disk[name] = Directory => name \in Folders

RequestOK ==
  /\ pc \in {"idle", "stat", "open", "size", "read"}
  /\ pc # "idle" => /\ response = None
                    /\ request \in [by : {"server", "caller"}, method : {"GET", "HEAD"},
                                    root : Roots, path : Paths,
                                    name : (Roots \X Paths) \cup Names]
  /\ pc = "stat" => request.name = <<request.root, request.path>>
  /\ pc \in {"open", "size", "read"} => request.name \in Names

(* What is open is the file of the request, under its name or not, and as  *)
(* long as nobody writes to it, it is the one that was found.              *)
HandleOK ==
  pc \in {"size", "read"} =>
    /\ handle.name \in {None, request.name}
    /\ IsFile(Held(handle)) => Marked(Held(handle), request.name)
    /\ due # Unknown => IsFile(due) /\ due = Held(handle)

BufferOK ==
  /\ buffer \in Seq(Unit) /\ Len(buffer) = BufferSize
  /\ pc # "read" => count = 0
  /\ pc = "read" => /\ size \in 0..BufferSize
                    /\ count \in 0..size
                    /\ \A i \in 1..count : buffer[i].of = request.name
                    /\ due # Unknown => /\ size = Len(due)
                                        /\ \A i \in 1..count : buffer[i] = due[i]

(* An answer that both properties hold of.                                 *)
Good(r) ==
  /\ r.due # Unknown => Right(r)
  /\ r.status = 200 => /\ \A i \in 1..Len(BodyOf(r)) : BodyOf(r)[i].of = r.name
                       /\ r.method = "GET" => r.length = Len(BodyOf(r))

(* What handle_request() wrote is a copy; an HttpResponse is looked at     *)
(* only before the next request.                                           *)
AnswersOK ==
  /\ output # None => output.body.in = "memory" /\ Good(output)
  /\ response # None => Good(response)

HttpInv == DiskOK /\ RequestOK /\ HandleOK /\ BufferOK /\ AnswersOK

----------------------------------------------------------------------------

LEMMA JoinedIs ==
  ASSUME NEW S, NEW p \in Seq(S), NEW q \in Seq(S)
  PROVE  /\ p \o q \in Seq(S)
         /\ Len(p \o q) = Len(p) + Len(q)
         /\ \A i \in 1..Len(p) : (p \o q)[i] = p[i]
         /\ \A i \in 1..Len(q) : (p \o q)[Len(p) + i] = q[i]
<1>1. Len(p) \in Nat /\ Len(q) \in Nat
  OBVIOUS
<1>2. /\ p \o q \in Seq(S)
      /\ Len(p \o q) = Len(p) + Len(q)
      /\ \A i \in 1..Len(p) + Len(q) :
            (p \o q)[i] = IF i <= Len(p) THEN p[i] ELSE q[i - Len(p)]
  BY ConcatProperties
<1>3. \A i \in 1..Len(q) : /\ Len(p) + i \in 1..Len(p) + Len(q)
                            /\ ~(Len(p) + i <= Len(p))
                            /\ (Len(p) + i) - Len(p) = i
  BY <1>1
<1>4. \A i \in 1..Len(p) : i \in 1..Len(p) + Len(q) /\ i <= Len(p)
  BY <1>1
<1> QED
  BY <1>2, <1>3, <1>4

LEMMA ContentIs ==
  ASSUME NEW name \in Names \cup {None}, NEW n \in Nat, NEW version \in Nat
  PROVE  Marked(Content(name, n, version), name) /\ Len(Content(name, n, version)) = n
<1>1. \A i \in 1..n : [of |-> name, version |-> version] \in Unit
  BY DEF Unit
<1>2. Content(name, n, version) \in Seq(Unit) /\ Len(Content(name, n, version)) = n
  BY <1>1 DEF Content
<1>3. \A i \in 1..n : Content(name, n, version)[i].of = name
  BY DEF Content
<1> QED
  BY <1>2, <1>3 DEF Marked

LEMMA HttpInit == Init => HttpInv
<1> SUFFICES ASSUME Init PROVE HttpInv
  OBVIOUS
<1>1. DiskOK
  <2>1. changes = 0 /\ \A name \in Names : disk[name] \in AtFirst(name)
    BY DEF Init, InitialDisks
  <2> SUFFICES ASSUME NEW name \in Names
               PROVE  /\ IsFile(disk[name]) => Marked(disk[name], name)
                      /\ disk[name] = Directory => name \in Folders
    BY <2>1 DEF DiskOK
  <2>2. CASE disk[name] = Absent
    BY <2>2, HttpNames DEF IsFile
  <2>3. ASSUME NEW n \in InitialLengths, disk[name] = Content(name, n, 0)
        PROVE  Marked(disk[name], name) /\ disk[name] # Directory
    BY <2>3, ContentIs, HttpAssumption, HttpNames
  <2>4. CASE name \in Folders /\ disk[name] = Directory
    BY <2>4 DEF IsFile
  <2> QED
    BY <2>1, <2>2, <2>3, <2>4 DEF AtFirst
<1>2. BufferOK
  BY ContentIs, HttpAssumption DEF Init, BufferOK, Marked
<1> QED
  BY <1>1, <1>2 DEF Init, HttpInv, RequestOK, HandleOK, AnswersOK

----------------------------------------------------------------------------

(* Answers are good as long as the buffer stays.                           *)
LEMMA AnswersAre ==
  ASSUME buffer' = buffer, NEW o, NEW r, output' = o, response' = r,
         o # None => o.body.in = "memory" /\ Good(o),
         r # None => Good(r)
  PROVE  AnswersOK'
<1>1. o # None => /\ o.due # Unknown => Right(o)'
                  /\ o.status = 200 => /\ \A i \in 1..Len(BodyOf(o)') : BodyOf(o)'[i].of = o.name
                                       /\ o.method = "GET" => o.length = Len(BodyOf(o)')
  BY DEF Good, Right, BodyOf
<1>2. r # None => /\ r.due # Unknown => Right(r)'
                  /\ r.status = 200 => /\ \A i \in 1..Len(BodyOf(r)') : BodyOf(r)'[i].of = r.name
                                       /\ r.method = "GET" => r.length = Len(BodyOf(r)')
  BY ZenonT(40) DEF Good, Right, BodyOf
<1>3. output' # None => output'.body.in = "memory" /\ Good(output)'
  BY <1>1 DEF Good, Right, BodyOf
<1>4. response' # None => Good(response)'
  BY <1>2, ZenonT(40) DEF Good, Right, BodyOf
<1> QED
  BY <1>3, <1>4 DEF AnswersOK

LEMMA AnswersStay ==
  ASSUME AnswersOK, UNCHANGED <<buffer, output, response>>
  PROVE  AnswersOK'
<1>1. PICK o, r : o = output /\ r = response
  OBVIOUS
<1>2. /\ o # None => o.body.in = "memory" /\ Good(o)
      /\ r # None => Good(r)
  BY <1>1 DEF AnswersOK
<1> QED
  BY <1>1, <1>2, AnswersAre

(* Calls that leave the disk, the request and the answers alone.           *)
LEMMA ServerKeeps ==
  ASSUME HttpInv, UNCHANGED <<files, pc, reading, buffer, response, output>>
  PROVE  HttpInv'
<1>1. UNCHANGED <<disk, changes, pc, request, handle, size, count, due, buffer, response, output>>
  BY DEF files, reading
<1>2. AnswersOK'
  BY <1>1, AnswersStay DEF HttpInv
<1> QED
  BY <1>1, <1>2 DEF HttpInv, DiskOK, RequestOK, HandleOK, BufferOK, Held

(* Who writes to a caller's buffer copies the body into it.                *)
LEMMA WrittenIsGood ==
  ASSUME NEW a, NEW b, NEW c, NEW m, NEW n, NEW d, NEW w,
         w = [status |-> a, length |-> b, body |-> c, method |-> m, name |-> n, due |-> d],
         Good(w), Written(w) # None
  PROVE  Written(w).body.in = "memory" /\ Good(Written(w))
<1> DEFINE v == [w EXCEPT !.body = Copied(w)]
<1>1. Written(w) = v
  BY DEF Written
<1>2. /\ v.status = w.status /\ v.length = w.length /\ v.method = w.method
      /\ v.name = w.name /\ v.due = w.due
      /\ v.body = Copied(w)
  OBVIOUS
<1> HIDE DEF v
<1>3. v.body.in = "memory" /\ v.body.bytes = BodyOf(w)
  BY <1>2 DEF Copied, Own
<1>4. BodyOf(v) = BodyOf(w)
  BY <1>3 DEF BodyOf
<1>5. Good(v)
  BY <1>2, <1>4 DEF Good, Right
<1> QED
  BY <1>1, <1>3, <1>5

(* A good answer ends a request well.                                      *)
LEMMA ReturnKeeps ==
  ASSUME HttpInv, pc # "idle", NEW page, NEW found, Return(page, found), NEW w,
         w = Note(IF request.method = "HEAD" THEN WithoutBody(page) ELSE page,
                  request.method, request.name, found),
         Good(w)
  PROVE  HttpInv'
<1>1. /\ pc' = "idle"
      /\ \/ output' = Written(w) /\ response' = None
         \/ output' = output /\ response' = w
      /\ count' = 0
      /\ UNCHANGED <<disk, changes, buffer>>
  BY DEF Return, HttpInv, RequestOK, files
<1>2. DiskOK' /\ RequestOK' /\ HandleOK' /\ BufferOK'
  BY <1>1 DEF HttpInv, DiskOK, RequestOK, HandleOK, BufferOK
<1>3. CASE output' = Written(w) /\ response' = None
  <2>1. PICK v : v = Written(w)
    OBVIOUS
  <2>2. v # None => v.body.in = "memory" /\ Good(v)
    BY <2>1, WrittenIsGood DEF Note
  <2> QED
    BY <1>1, <1>2, <1>3, <2>1, <2>2, AnswersAre DEF HttpInv
<1>4. CASE output' = output /\ response' = w
  <2>1. PICK o : o = output
    OBVIOUS
  <2>2. o # None => o.body.in = "memory" /\ Good(o)
    BY <2>1 DEF HttpInv, AnswersOK
  <2> QED
    BY <1>1, <1>2, <1>4, <2>1, <2>2, AnswersAre DEF HttpInv
<1> QED
  BY <1>1, <1>3, <1>4

(* "Not Found" is right when nothing was found, when what was found is too *)
(* large, and when somebody wrote to it.                                   *)
LEMMA NotFoundKeeps ==
  ASSUME HttpInv, pc # "idle", NEW found, Return(ErrorPage(404), found),
         \/ found = Unknown
         \/ found = Absent
         \/ Len(found) \in Nat /\ Len(found) > BufferSize
  PROVE  HttpInv'
<1> DEFINE w == Note(IF request.method = "HEAD" THEN WithoutBody(ErrorPage(404)) ELSE ErrorPage(404),
                     request.method, request.name, found)
<1>1. Page(404).size = 1
  <2>1. [i \in 1..1 |-> [of |-> None, version |-> 404]]
            \in Seq([of : {None}, version : Nat])
    OBVIOUS
  <2>2. Len(Content(None, 1, 404)) = 1
    BY <2>1 DEF Content
  <2> QED
    BY <2>2 DEF Page, Own
<1>2. w.status = 404 /\ w.length = 1 /\ w.due = found
  BY <1>1 DEF Note, WithoutBody, ErrorPage
<1> HIDE DEF w
<1>3. Good(w)
  BY <1>2, HttpAssumption DEF Good, Right
<1> QED
  BY <1>3, ReturnKeeps DEF w

LEMMA UnservedKeeps == HttpInv /\ Unserved => HttpInv'
<1> SUFFICES ASSUME HttpInv, Unserved PROVE HttpInv'
  OBVIOUS
<1> DEFINE w == Note(ErrorPage(500), "other", None, Unknown)
<1>1. Good(w)
  BY DEF Good, Note, ErrorPage
<1>2. PICK v : v = Written(w)
  OBVIOUS
<1>3. v # None => v.body.in = "memory" /\ Good(v)
  BY <1>1, <1>2, WrittenIsGood DEF Note
<1>4. output' = v /\ UNCHANGED <<disk, changes, pc, request, handle, size, count, due, buffer, response>>
  BY <1>2 DEF Unserved, files, reading
<1>5. DiskOK' /\ RequestOK' /\ HandleOK' /\ BufferOK'
  BY <1>4 DEF HttpInv, DiskOK, RequestOK, HandleOK, BufferOK, Held
<1>6. AnswersOK'
  <2>1. PICK r : r = response
    OBVIOUS
  <2>2. r # None => Good(r)
    BY <2>1 DEF HttpInv, AnswersOK
  <2> QED
    BY <1>3, <1>4, <2>1, <2>2, AnswersAre
<1> QED
  BY <1>5, <1>6 DEF HttpInv

LEMMA RequestKeeps ==
  ASSUME HttpInv, NEW by \in {"server", "caller"}, NEW method \in {"GET", "HEAD"},
         NEW root \in Roots, NEW path \in Paths, Request(by, method, root, path)
  PROVE  HttpInv'
<1> DEFINE r == [by |-> by, method |-> method, root |-> root, path |-> path,
                 name |-> <<root, path>>]
<1>1. /\ pc = "idle" /\ pc' = "stat"
      /\ request' = r
      /\ response' = None
      /\ output' \in {None, output}
      /\ UNCHANGED <<disk, changes, handle, size, count, due, buffer>>
  BY DEF Request, files
<1>2. /\ r \in [by : {"server", "caller"}, method : {"GET", "HEAD"},
                root : Roots, path : Paths, name : (Roots \X Paths) \cup Names]
      /\ r.name = <<r.root, r.path>>
  OBVIOUS
<1> HIDE DEF r
<1>3. DiskOK' /\ RequestOK' /\ HandleOK' /\ BufferOK'
  BY <1>1, <1>2 DEF HttpInv, DiskOK, RequestOK, HandleOK, BufferOK
<1>4. AnswersOK'
  <2>1. PICK o : o = output'
    OBVIOUS
  <2>2. o # None => o.body.in = "memory" /\ Good(o)
    <3>1. CASE output' = None
      BY <2>1, <3>1
    <3>2. CASE output' = output
      BY <2>1, <3>2 DEF HttpInv, AnswersOK
    <3> QED
      BY <1>1, <3>1, <3>2
  <2> QED
    BY <1>1, <2>1, <2>2, AnswersAre
<1> QED
  BY <1>3, <1>4 DEF HttpInv

----------------------------------------------------------------------------

LEMMA StatKeeps == HttpInv /\ Stat => HttpInv'
<1> SUFFICES ASSUME HttpInv, Stat PROVE HttpInv'
  OBVIOUS
<1>1. /\ pc = "stat" /\ pc' = "open"
      /\ request.path \notin Upward
      /\ request' = [request EXCEPT !.name =
                       IF disk[request.name] = Directory THEN Index(request.name) ELSE request.name]
      /\ UNCHANGED <<disk, changes, handle, size, count, due, buffer, response, output>>
  BY DEF Stat, files
<1>2. /\ request \in [by : {"server", "caller"}, method : {"GET", "HEAD"},
                      root : Roots, path : Paths, name : (Roots \X Paths) \cup Names]
      /\ request.name = <<request.root, request.path>>
  BY <1>1 DEF HttpInv, RequestOK
<1>3. request.name \in Names
  BY <1>1, <1>2 DEF Names, Entries
<1> DEFINE n == IF disk[request.name] = Directory THEN Index(request.name) ELSE request.name
<1>4. n \in Names
  BY <1>3 DEF HttpInv, DiskOK, Names
<1> HIDE DEF n
<1>5. request' = [request EXCEPT !.name = n]
  BY <1>1 DEF n
<1>6. /\ request' \in [by : {"server", "caller"}, method : {"GET", "HEAD"},
                       root : Roots, path : Paths, name : (Roots \X Paths) \cup Names]
      /\ request'.name = n
  BY <1>2, <1>4, <1>5
<1>7. RequestOK'
  BY <1>1, <1>4, <1>6 DEF HttpInv, RequestOK
<1>8. AnswersOK'
  BY <1>1, AnswersStay DEF HttpInv
<1> QED
  BY <1>1, <1>7, <1>8 DEF HttpInv, DiskOK, HandleOK, BufferOK

LEMMA OpenKeeps == HttpInv /\ Open => HttpInv'
<1> SUFFICES ASSUME HttpInv, Open PROVE HttpInv'
  OBVIOUS
<1>1. /\ pc = "open" /\ pc' = "size"
      /\ handle' = [name |-> request.name, kept |-> <<>>]
      /\ due' = IF IsFile(disk[request.name]) THEN disk[request.name] ELSE Unknown
      /\ UNCHANGED <<disk, changes, request, size, count, buffer, response, output>>
  BY DEF Open, files
<1>2. request.name \in Names
  BY <1>1 DEF HttpInv, RequestOK
<1>3. handle'.name = request.name /\ handle'.name # None
  BY <1>1, <1>2, HttpNames
<1>4. Held(handle)' = disk[request.name]
  BY <1>1, <1>3 DEF Held
<1>5. HandleOK'
  BY <1>1, <1>2, <1>3, <1>4 DEF HttpInv, DiskOK, HandleOK, IsFile
<1>6. AnswersOK'
  BY <1>1, AnswersStay DEF HttpInv
<1> QED
  BY <1>1, <1>5, <1>6 DEF HttpInv, DiskOK, RequestOK, BufferOK

LEMMA SizeKeeps == HttpInv /\ Size => HttpInv'
<1> SUFFICES ASSUME HttpInv, Size PROVE HttpInv'
  OBVIOUS
<1>1. /\ pc = "size" /\ pc' = "read"
      /\ size' \in {n \in Told(Held(handle)) : n <= BufferSize}
      /\ UNCHANGED <<disk, changes, request, handle, count, due, buffer, response, output>>
  BY DEF Size, files
<1>2. /\ IsFile(Held(handle)) => Held(handle) \in Seq(Unit)
      /\ due # Unknown => IsFile(due) /\ due = Held(handle)
  BY <1>1 DEF HttpInv, HandleOK, Marked
<1>3. size' \in 0..BufferSize
  BY <1>1, <1>2, HttpAssumption DEF Told
<1>4. due # Unknown => size' = Len(due)
  BY <1>1, <1>2 DEF Told
<1>5. count' = 0
  BY <1>1 DEF HttpInv, BufferOK
<1>6. BufferOK'
  BY <1>1, <1>3, <1>4, <1>5, HttpAssumption DEF HttpInv, BufferOK
<1>7. AnswersOK'
  BY <1>1, AnswersStay DEF HttpInv
<1> QED
  BY <1>1, <1>6, <1>7 DEF HttpInv, DiskOK, RequestOK, HandleOK, Held

(* A piece of the open file takes its place in the buffer.                 *)
Piece(b, f, k, n) ==
  SubSeq(b, 1, k) \o SubSeq(f, k + 1, k + n) \o SubSeq(b, k + n + 1, Len(b))

LEMMA PieceIs ==
  ASSUME NEW b \in Seq(Unit), NEW f \in Seq(Unit), NEW k \in Nat, NEW n \in Nat,
         k + n <= Len(b), k + n <= Len(f)
  PROVE  /\ Piece(b, f, k, n) \in Seq(Unit)
         /\ Len(Piece(b, f, k, n)) = Len(b)
         /\ \A i \in 1..k : Piece(b, f, k, n)[i] = b[i]
         /\ \A i \in k + 1..k + n : Piece(b, f, k, n)[i] = f[i]
<1> DEFINE c == Piece(b, f, k, n)
           p == SubSeq(b, 1, k)
           q == SubSeq(f, k + 1, k + n)
           r == SubSeq(b, k + n + 1, Len(b))
<1>1. Len(b) \in Nat /\ Len(f) \in Nat
  OBVIOUS
<1>2. p \in Seq(Unit) /\ Len(p) = k /\ \A i \in 1..k : p[i] = b[i]
  BY <1>1
<1>3. q \in Seq(Unit) /\ Len(q) = n /\ \A i \in 1..n : q[i] = f[k + i]
  BY <1>1
<1>4. r \in Seq(Unit) /\ Len(r) = Len(b) - (k + n)
  BY <1>1
<1>5. c = (p \o q) \o r
  BY DEF Piece
<1> HIDE DEF c, p, q, r
<1>6. /\ p \o q \in Seq(Unit)
      /\ Len(p \o q) = Len(p) + Len(q)
      /\ \A i \in 1..Len(p) : (p \o q)[i] = p[i]
      /\ \A i \in 1..Len(q) : (p \o q)[Len(p) + i] = q[i]
  <2>1. p \in Seq(Unit) /\ q \in Seq(Unit)
    BY <1>2, <1>3
  <2> QED
    BY <2>1, JoinedIs
<1> DEFINE u == p \o q
<1> HIDE DEF u
<1>7. /\ u \o r \in Seq(Unit)
      /\ Len(u \o r) = Len(u) + Len(r)
      /\ \A i \in 1..Len(u) : (u \o r)[i] = u[i]
  <2>1. u \in Seq(Unit) /\ r \in Seq(Unit)
    BY <1>4, <1>6 DEF u
  <2> QED
    BY <2>1, JoinedIs
<1>8. c \in Seq(Unit) /\ Len(c) = Len(b)
  <2>1. c = u \o r
    BY <1>5 DEF u
  <2>2. Len(u) = k + n
    BY <1>2, <1>3, <1>6 DEF u
  <2>3. c \in Seq(Unit) /\ Len(c) = Len(u) + Len(r)
    BY <1>7, <2>1
  <2>4. Len(u) + Len(r) = Len(b)
    BY <1>1, <1>4, <2>2
  <2> QED
    BY <2>3, <2>4
<1>9. ASSUME NEW i \in 1..k PROVE c[i] = b[i]
  <2>1. i \in 1..Len(p) /\ i \in 1..Len(u)
    BY <1>2, <1>3, <1>6 DEF u
  <2> QED
    BY <1>2, <1>5, <1>6, <1>7, <2>1 DEF u
<1>10. ASSUME NEW i \in k + 1..k + n PROVE c[i] = f[i]
  <2> DEFINE j == i - k
  <2>1. j \in 1..n /\ k + j = i /\ i \in 1..k + n
    OBVIOUS
  <2> HIDE DEF j
  <2>2. c[i] = u[i]
    BY <1>2, <1>3, <1>5, <1>6, <1>7, <2>1 DEF u
  <2>3. u[k + j] = q[j]
    BY <1>2, <1>3, <1>6, <2>1 DEF u
  <2> QED
    BY <1>3, <2>1, <2>2, <2>3
<1> QED
  BY <1>8, <1>9, <1>10 DEF c

LEMMA ReadKeeps == ASSUME NEW n \in 1..BufferSize PROVE HttpInv /\ Read(n) => HttpInv'
<1> SUFFICES ASSUME HttpInv, Read(n) PROVE HttpInv'
  OBVIOUS
<1> DEFINE f == Readable(handle)
<1>1. /\ pc = "read" /\ pc' = "read"
      /\ count + n <= size
      /\ count + n <= Len(f)
      /\ buffer' = Piece(buffer, f, count, n)
      /\ count' = count + n
      /\ UNCHANGED <<disk, changes, request, handle, size, due, response, output>>
  BY DEF Read, Piece, files
<1>2. /\ buffer \in Seq(Unit) /\ Len(buffer) = BufferSize
      /\ size \in 0..BufferSize /\ count \in 0..size
      /\ \A i \in 1..count : buffer[i].of = request.name
      /\ due # Unknown => size = Len(due) /\ \A i \in 1..count : buffer[i] = due[i]
      /\ n \in Nat /\ n > 0
  BY <1>1 DEF HttpInv, BufferOK
<1>3. IsFile(Held(handle)) /\ f = Held(handle)
  <2>1. CASE ~IsFile(Held(handle))
    <3>1. Len(f) = 0
      BY <2>1 DEF Readable
    <3> QED
      BY <1>1, <1>2, <3>1
  <2> QED
    BY <2>1 DEF Readable
<1>4. /\ f \in Seq(Unit)
      /\ \A i \in 1..Len(f) : f[i].of = request.name
      /\ due # Unknown => due = f
  BY <1>1, <1>3 DEF HttpInv, HandleOK, Marked
<1> HIDE DEF f
<1>5. PICK c : c = buffer'
  OBVIOUS
<1>6. /\ c \in Seq(Unit)
      /\ Len(c) = Len(buffer)
      /\ \A i \in 1..count : c[i] = buffer[i]
      /\ \A i \in count + 1..count + n : c[i] = f[i]
  <2>1. count \in Nat /\ count + n <= Len(buffer)
    BY <1>1, <1>2, HttpAssumption
  <2>2. c = Piece(buffer, f, count, n) /\ count + n <= Len(f)
    BY <1>1, <1>5
  <2> QED
    BY <1>2, <1>4, <2>1, <2>2, PieceIs
<1>7. ASSUME NEW i \in 1..count + n
      PROVE  c[i].of = request.name /\ (due # Unknown => c[i] = due[i])
  <2>1. CASE i \in 1..count
    BY <1>2, <1>6, <2>1
  <2>2. CASE i \in count + 1..count + n
    <3>1. i \in 1..Len(f)
      BY <1>1, <1>2, <1>4, <2>2
    <3> QED
      BY <1>4, <1>6, <2>2, <3>1
  <2> QED
    BY <1>2, <2>1, <2>2
<1>8. count + n \in 0..size
  BY <1>1, <1>2, HttpAssumption
<1>9. BufferOK'
  BY <1>1, <1>2, <1>5, <1>6, <1>7, <1>8 DEF BufferOK
<1>10. AnswersOK'
  <2>1. PICK o : o = output
    OBVIOUS
  <2>2. o # None => o.body.in = "memory" /\ Good(o)
    BY <2>1 DEF HttpInv, AnswersOK
  <2>3. response = None
    BY <1>1 DEF HttpInv, RequestOK
  <2>4. output' = o /\ response' = None
    BY <1>1, <2>1, <2>3
  <2> QED
    BY <2>2, <2>4 DEF AnswersOK, Good, Right, BodyOf
<1> QED
  BY <1>1, <1>9, <1>10 DEF HttpInv, DiskOK, RequestOK, HandleOK, Held
(* What has been read to the size is the file, or what somebody wrote to   *)
(* that same file meanwhile.                                               *)
LEMMA FileKeeps ==
  ASSUME HttpInv, pc = "read", count = size, Return(FilePage(size), due)
  PROVE  HttpInv'
<1> DEFINE page == IF request.method = "HEAD" THEN WithoutBody(FilePage(size)) ELSE FilePage(size)
           w == Note(page, request.method, request.name, due)
<1>1. /\ w.status = 200 /\ w.length = size /\ w.due = due
      /\ w.method = request.method /\ w.name = request.name
      /\ w.body = page.body
  BY DEF Note, WithoutBody, FilePage
<1>2. /\ buffer \in Seq(Unit) /\ Len(buffer) = BufferSize
      /\ size \in 0..BufferSize
      /\ \A i \in 1..size : buffer[i].of = request.name
      /\ due # Unknown => size = Len(due) /\ \A i \in 1..size : buffer[i] = due[i]
  BY DEF HttpInv, BufferOK
<1>3. request.method \in {"GET", "HEAD"}
  BY DEF HttpInv, RequestOK
<1>4. due # Unknown => due \in Seq(Unit) /\ due # Absent
  BY DEF HttpInv, HandleOK, Marked, IsFile
<1>5. CASE request.method = "HEAD"
  <2>1. w.body.in = "memory" /\ w.body.bytes = <<>>
    BY <1>1, <1>5 DEF WithoutBody, Own
  <2> HIDE DEF page, w
  <2>2. BodyOf(w) = <<>>
    BY <2>1 DEF BodyOf
  <2>3. Len(BodyOf(w)) = 0
    BY <2>2
  <2>4. \A i \in 1..Len(BodyOf(w)) : BodyOf(w)[i].of = w.name
    BY <2>3
  <2>5. w.method # "GET"
    BY <1>1, <1>5
  <2>6. Good(w)
    BY <1>1, <1>2, <1>4, <1>5, <2>2, <2>4, <2>5 DEF Good, Right
  <2> QED
    BY <2>6, ReturnKeeps DEF page, w
<1>6. CASE request.method = "GET"
  <2>1. w.body.in = "buffer" /\ w.body.size = size
    BY <1>1, <1>6 DEF FilePage, Shared
  <2> HIDE DEF page, w
  <2>2. BodyOf(w) = SubSeq(buffer, 1, size)
    BY <2>1 DEF BodyOf
  <2> DEFINE bytes == SubSeq(buffer, 1, size)
  <2>3. bytes \in Seq(Unit) /\ Len(bytes) = size /\ \A i \in 1..size : bytes[i] = buffer[i]
    BY <1>2
  <2>4. ASSUME due # Unknown PROVE bytes = due
    BY <1>2, <1>4, <2>3, <2>4
  <2> HIDE DEF bytes
  <2>5. BodyOf(w) = bytes
    BY <2>2 DEF bytes
  <2>6. \A i \in 1..Len(BodyOf(w)) : BodyOf(w)[i].of = w.name
    BY <1>1, <1>2, <2>3, <2>5
  <2>7. Good(w)
    BY <1>1, <1>2, <1>4, <1>6, <2>3, <2>4, <2>5, <2>6 DEF Good, Right
  <2> QED
    BY <2>7, ReturnKeeps DEF page, w
<1> QED
  BY <1>3, <1>5, <1>6

LEMMA EndReadKeeps == HttpInv /\ EndRead => HttpInv'
<1> SUFFICES ASSUME HttpInv, EndRead PROVE HttpInv'
  OBVIOUS
<1>1. pc = "read" /\ ReadOver /\ Return(PageRead, due)
  BY DEF EndRead
<1>2. CASE count = size
  BY <1>1, <1>2, FileKeeps DEF PageRead
<1>3. CASE count # size
  <2>1. due = Unknown
    <3> SUFFICES ASSUME due # Unknown PROVE FALSE
      OBVIOUS
    <3>1. IsFile(due) /\ due = Held(handle)
      BY <1>1 DEF HttpInv, HandleOK
    <3>2. Readable(handle) = due
      BY <3>1 DEF Readable
    <3>3. size = Len(due) /\ count \in 0..size /\ size \in 0..BufferSize
      BY <1>1 DEF HttpInv, BufferOK
    <3>4. count >= size
      BY <1>1, <1>3, <3>2, <3>3 DEF ReadOver
    <3> QED
      BY <1>3, <3>3, <3>4, HttpAssumption
  <2> QED
    BY <1>1, <1>3, <2>1, NotFoundKeeps DEF PageRead
<1> QED
  BY <1>2, <1>3

(* What is larger than the buffer is not read.                             *)
LEMMA SizeFailsKeeps == HttpInv /\ SizeFails => HttpInv'
<1> SUFFICES ASSUME HttpInv, SizeFails PROVE HttpInv'
  OBVIOUS
<1>1. /\ pc = "size"
      /\ \E n \in Told(Held(handle)) : n > BufferSize
      /\ Return(ErrorPage(404), due)
  BY DEF SizeFails
<1>2. due # Unknown => Len(due) \in Nat /\ Len(due) > BufferSize
  <2> SUFFICES ASSUME due # Unknown PROVE Len(due) \in Nat /\ Len(due) > BufferSize
    OBVIOUS
  <2>1. IsFile(due) /\ due = Held(handle) /\ due \in Seq(Unit)
    BY <1>1 DEF HttpInv, HandleOK, Marked
  <2>2. Told(Held(handle)) = {Len(due)}
    BY <2>1 DEF Told
  <2> QED
    BY <1>1, <2>1, <2>2
<1> QED
  BY <1>1, <1>2, NotFoundKeeps

LEMMA NothingThereKeeps == HttpInv /\ (Refuse \/ OpenFails) => HttpInv'
<1> SUFFICES ASSUME HttpInv, Refuse \/ OpenFails PROVE HttpInv'
  OBVIOUS
<1>1. pc # "idle" /\ Return(ErrorPage(404), Absent)
  BY DEF Refuse, OpenFails
<1> QED
  BY <1>1, NotFoundKeeps

----------------------------------------------------------------------------

(* The disk changes; the open file is what it was, unless it was written.  *)
LEMMA ChangeKeeps ==
  ASSUME HttpInv, NEW names \in SUBSET Names, NEW content, Change(names, content),
         \A name \in names : /\ IsFile(content) => Marked(content, name)
                             /\ content = Directory => name \in Folders,
         \/ Kept(names)
         \/ /\ handle' = handle
            /\ due' = IF handle.name \in names THEN Unknown ELSE due
  PROVE  HttpInv'
<1>1. /\ disk' = [name \in Names |-> IF name \in names THEN content ELSE disk[name]]
      /\ changes' = changes + 1
      /\ UNCHANGED <<pc, request, size, count, buffer, response, output>>
  BY DEF Change
<1>2. DiskOK'
  <2>1. changes' \in Nat
    BY <1>1 DEF HttpInv, DiskOK
  <2>2. ASSUME NEW name \in Names
        PROVE  /\ IsFile(disk'[name]) => Marked(disk'[name], name)
               /\ disk'[name] = Directory => name \in Folders
    <3>1. disk'[name] \in {content, disk[name]}
      BY <1>1
    <3> QED
      BY <1>1, <3>1 DEF HttpInv, DiskOK
  <2> QED
    BY <2>1, <2>2 DEF DiskOK
<1>3. RequestOK'
  BY <1>1 DEF HttpInv, RequestOK
<1>4. due' \in {due, Unknown}
  BY DEF Kept
<1>5. ASSUME pc \in {"size", "read"}
      PROVE  /\ handle'.name \in {None, request.name}
             /\ IsFile(Held(handle)') => Marked(Held(handle)', request.name)
             /\ due' # Unknown => IsFile(due') /\ due' = Held(handle)'
  <2>1. /\ request.name \in Names
        /\ handle.name \in {None, request.name}
        /\ IsFile(Held(handle)) => Marked(Held(handle), request.name)
        /\ due # Unknown => IsFile(due) /\ due = Held(handle)
    BY <1>5 DEF HttpInv, RequestOK, HandleOK
  <2>2. None \notin names
    BY HttpNames
  <2>3. CASE handle.name \notin names
    <3>1. handle' = handle /\ due' = due
      BY <2>3 DEF Kept
    <3>2. Held(handle)' = Held(handle)
      BY <1>1, <2>1, <2>3, <3>1 DEF Held
    <3> QED
      BY <2>1, <3>1, <3>2
  <2>4. CASE handle.name \in names /\ Kept(names)
    <3>1. handle' = [name |-> None, kept |-> disk[handle.name]] /\ due' = due
      BY <2>4 DEF Kept
    <3>2. Held(handle)' = Held(handle)
      BY <2>2, <2>4, <3>1 DEF Held
    <3> QED
      BY <2>1, <3>1, <3>2
  <2>5. CASE handle.name \in names /\ handle' = handle /\ due' = Unknown
    <3>1. handle.name = request.name /\ handle.name # None
      BY <2>1, <2>2, <2>5
    <3>2. Held(handle)' = content
      BY <1>1, <2>5, <3>1 DEF Held
    <3> QED
      BY <2>1, <2>5, <3>1, <3>2
  <2> QED
    BY <2>3, <2>4, <2>5
<1>6. HandleOK'
  BY <1>1, <1>5 DEF HandleOK
<1>7. BufferOK'
  BY <1>1, <1>4 DEF HttpInv, BufferOK
<1>8. AnswersOK'
  BY <1>1, AnswersStay DEF HttpInv
<1> QED
  BY <1>2, <1>3, <1>6, <1>7, <1>8 DEF HttpInv

(* A new content is one of the file that it is written to.                 *)
LEMMA NewContentIs ==
  ASSUME HttpInv, changes < MaxChanges, NEW name \in Names, NEW content \in NewContents(name)
  PROVE  Marked(content, name) /\ content # Directory
<1>1. PICK n \in Lengths : content = Content(name, n, changes + 1)
  BY DEF NewContents
<1>2. changes + 1 \in 0..MaxChanges /\ changes + 1 \in Nat
  BY HttpAssumption DEF HttpInv, DiskOK
<1>3. n \in Nat /\ n \in Lengths \cup InitialLengths
  BY HttpAssumption
<1>4. name \in Names \cup {None}
  OBVIOUS
<1>5. Marked(Content(name, n, changes + 1), name)
  BY <1>2, <1>3, <1>4, ContentIs
<1> QED
  BY <1>1, <1>2, <1>3, <1>5, HttpNames

LEMMA FileChangesKeep ==
  ASSUME HttpInv, NEW name \in Names, NEW content \in NewContents(name),
         Replace(name, content) \/ Rewrite(name, content)
  PROVE  HttpInv'
<1>1. Change({name}, content) /\ changes < MaxChanges
  BY DEF Replace, Rewrite, Change
<1>2. Marked(content, name) /\ content # Directory
  BY <1>1, NewContentIs
<1>3. CASE Kept({name})
  BY <1>1, <1>2, <1>3, ChangeKeeps
<1>4. CASE Rewrite(name, content)
  BY <1>1, <1>2, <1>4, ChangeKeeps DEF Rewrite
<1> QED
  BY <1>3, <1>4 DEF Replace

LEMMA MakeDirectoryKeeps ==
  ASSUME HttpInv, NEW name \in Folders, MakeDirectory(name)
  PROVE  HttpInv'
<1>1. name \in Names
  BY HttpAssumption DEF Folders, Entries, Names
<1>2. Change({name}, Directory) /\ Kept({name}) /\ ~IsFile(Directory)
  BY DEF MakeDirectory, IsFile
<1> QED
  BY <1>1, <1>2, ChangeKeeps

LEMMA DeleteKeeps ==
  ASSUME HttpInv, NEW name \in Names, Delete(name)
  PROVE  HttpInv'
<1> DEFINE gone == {name} \cup (IF disk[name] = Directory THEN {Index(name)} ELSE {})
<1>1. gone \in SUBSET Names
  <2>1. CASE disk[name] = Directory
    BY <2>1 DEF HttpInv, DiskOK, Names
  <2> QED
    BY <2>1
<1>2. Change(gone, Absent) /\ Kept(gone)
  BY DEF Delete
<1> HIDE DEF gone
<1>3. ~IsFile(Absent) /\ Absent # Directory
  BY HttpNames DEF IsFile
<1> QED
  BY <1>1, <1>2, <1>3, ChangeKeeps

----------------------------------------------------------------------------

LEMMA ServeKeeps == HttpInv /\ Serve => HttpInv'
<1> SUFFICES ASSUME HttpInv, Serve PROVE HttpInv'
  OBVIOUS
<1>1. CASE Refuse \/ OpenFails
  BY <1>1, NothingThereKeeps
<1>2. CASE Stat
  BY <1>2, StatKeeps
<1>3. CASE Open
  BY <1>3, OpenKeeps
<1>4. CASE Size
  BY <1>4, SizeKeeps
<1>5. CASE SizeFails
  BY <1>5, SizeFailsKeeps
<1>6. ASSUME NEW n \in 1..BufferSize, Read(n) PROVE HttpInv'
  BY <1>6, ReadKeeps
<1>7. CASE EndRead
  BY <1>7, EndReadKeeps
<1> QED
  BY <1>1, <1>2, <1>3, <1>4, <1>5, <1>6, <1>7 DEF Serve

LEMMA HttpStep == HttpInv /\ [Next]_vars => HttpInv'
<1> SUFFICES ASSUME HttpInv, [Next]_vars PROVE HttpInv'
  OBVIOUS
<1>1. CASE UNCHANGED vars
  BY <1>1, ServerKeeps DEF vars
<1>2. ASSUME NEW root \in Roots, InitServer(root) PROVE HttpInv'
  BY <1>2, ServerKeeps DEF InitServer
<1>3. CASE Start
  BY <1>3, ServerKeeps DEF Start
<1>4. CASE Stop
  BY <1>4, ServerKeeps DEF Stop
<1>5. CASE OtherOpens
  BY <1>5, ServerKeeps DEF OtherOpens
<1>6. CASE OtherCloses
  BY <1>6, ServerKeeps DEF OtherCloses
<1>7. CASE Unserved
  BY <1>7, UnservedKeeps
<1>8. ASSUME NEW by \in {"server", "caller"}, NEW method \in {"GET", "HEAD"},
             NEW root \in Roots, NEW path \in Paths, Request(by, method, root, path)
      PROVE  HttpInv'
  BY <1>8, RequestKeeps
<1>9. CASE Serve
  BY <1>9, ServeKeeps
<1>10. ASSUME NEW name \in Names, NEW content \in NewContents(name),
              Replace(name, content) \/ Rewrite(name, content)
       PROVE  HttpInv'
  BY <1>10, FileChangesKeep
<1>11. ASSUME NEW name \in Names, Delete(name) PROVE HttpInv'
  BY <1>11, DeleteKeeps
<1>12. ASSUME NEW name \in Folders, MakeDirectory(name) PROVE HttpInv'
  BY <1>12, MakeDirectoryKeeps
<1> QED
  BY <1>1, <1>2, <1>3, <1>4, <1>5, <1>6, <1>7, <1>8, <1>9, <1>10, <1>11, <1>12 DEF Next

(* The disk, the request, the open file, the buffer and the answers agree  *)
(* in every state.                                                         *)
THEOREM HttpInvariant == Spec => []HttpInv
<1> QED
  BY HttpInit, HttpStep, PTL DEF Spec

(* Every answer is the file that had the name when it was opened, or "Not  *)
(* Found", whatever becomes of the name while it is read, and what a       *)
(* caller has stays so over later requests (http.cpp:206).                 *)
THEOREM HttpAnswersAreRight == Spec => []AnswersAreRight
<1>1. HttpInv => AnswersAreRight
  BY DEF HttpInv, AnswersOK, Good, AnswersAreRight, Clear
<1> QED
  BY <1>1, HttpInvariant, PTL

(* No part of a body is left over from another file, even when the file is *)
(* written to or cut while it is read (http.cpp:219).                      *)
THEOREM HttpNothingStale == Spec => []NothingStale
<1>1. HttpInv => NothingStale
  BY DEF HttpInv, AnswersOK, Good, NothingStale
<1> QED
  BY <1>1, HttpInvariant, PTL

(* A server that runs has its transport, unless another user of it closed  *)
(* it (http_server.cpp:66).                                                *)
THEOREM HttpRunningIsOpen == Spec => []RunningIsOpen
<1>1. Init => RunningIsOpen
  BY DEF Init, RunningIsOpen
<1>2. RunningIsOpen /\ [Next]_vars => RunningIsOpen'
  <2> SUFFICES ASSUME RunningIsOpen, [Next]_vars PROVE RunningIsOpen'
    OBVIOUS
  <2>1. CASE UNCHANGED server
    BY <2>1 DEF server, RunningIsOpen
  <2>2. ASSUME NEW root \in Roots, InitServer(root) PROVE RunningIsOpen'
    BY <2>2 DEF InitServer, RunningIsOpen
  <2>3. CASE Start
    BY <2>3 DEF Start, RunningAfter, RunningIsOpen
  <2>4. CASE Stop
    BY <2>4 DEF Stop, RunningIsOpen
  <2>5. CASE OtherOpens
    BY <2>5 DEF OtherOpens, RunningIsOpen
  <2>6. CASE OtherCloses
    BY <2>6 DEF OtherCloses, RunningIsOpen
  <2>7. CASE Serve
    BY <2>7, <2>1 DEF Serve, Refuse, Stat, Open, OpenFails, Size, SizeFails, Read, EndRead, Return
  <2>8. ASSUME NEW name \in Names, NEW content,
               \/ Replace(name, content) \/ Rewrite(name, content)
               \/ Delete(name) \/ MakeDirectory(name)
        PROVE  RunningIsOpen'
    BY <2>8, <2>1 DEF Replace, Rewrite, Delete, MakeDirectory, Change
  <2>9. CASE Unserved
    BY <2>9, <2>1 DEF Unserved
  <2>10. ASSUME NEW by, NEW method, NEW root, NEW path, Request(by, method, root, path)
         PROVE  RunningIsOpen'
    BY <2>10, <2>1 DEF Request
  <2>11. ASSUME NEW name \in Folders, MakeDirectory(name) PROVE RunningIsOpen'
    BY <2>11, <2>1 DEF MakeDirectory, Change
  <2>12. CASE UNCHANGED vars
    BY <2>12, <2>1 DEF vars
  <2> QED
    BY <2>2, <2>3, <2>4, <2>5, <2>6, <2>7, <2>8, <2>9, <2>10, <2>11, <2>12 DEF Next
<1> QED
  BY <1>1, <1>2, PTL DEF Spec
=============================================================================
