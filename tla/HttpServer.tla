----------------------------- MODULE HttpServer -----------------------------
(***************************************************************************)
(* The static file server (src/service/http_server.cpp and http.cpp).  A   *)
(* request comes through handle_request(), which writes the response to    *)
(* its caller's buffer, or straight to http_handle_get() or _head(), whose *)
(* HttpResponse points to the body.  The body of every file lies in one    *)
(* static buffer.                                                          *)
(*                                                                         *)
(* One thread serves.  Other processes replace, remove and rewrite the     *)
(* files between any two of its system calls: stat, fopen, ftell, and as   *)
(* many reads as the C library makes of fread.  What replaces a file is a  *)
(* new one; who has opened the old one reads that to its end.  The server  *)
(* opens the TCP transport of the whole process, which others there use.   *)
(*                                                                         *)
(* The name of a file is the root, the path, and "index.html" for what is  *)
(* served in place of a directory.  Its content is a sequence of units,    *)
(* each marked with the file and the version that it is from.              *)
(***************************************************************************)
EXTENDS Integers, Sequences, SequencesExt

CONSTANTS Roots, Paths,       \* document roots, and the paths that are asked for
          Upward,             \* those with ".." in them
          Sites,              \* those that may be a directory
          Lengths,            \* the lengths of files
          InitialLengths,     \* and of those that are there at first
          BufferSize,         \* the size of the static buffer: 1 MB
          OutputSize,         \* how long a body fits the buffers of callers
          MaxChanges,         \* bound on the changes of files
          Absent, Directory,  \* in place of a content
          None, Unknown       \* no file, no response; and a ghost's lack of an answer

ASSUME HttpAssumption == /\ BufferSize \in Nat /\ OutputSize \in Nat /\ MaxChanges \in Nat
                         /\ Lengths \subseteq Nat /\ InitialLengths \subseteq Nat
                         /\ Sites \subseteq Paths \ Upward

VARIABLES config,   \* the document root of the server
          running,  \* whether the server runs: "yes" or "no"
          tcp,      \* the TCP transport of the process: "open" or "closed"
          foreign,  \* ghost: whether another user closed it while the server ran
          disk,     \* what is under each name
          changes,  \* how often the disk was changed
          pc,       \* the next step of the request, or "idle"
          request,  \* how it came, its method, root and path
          handle,   \* the open file: its name, or what is kept of one without a name
          size,     \* what ftell() said
          count,    \* how much has been read
          buffer,   \* file_buffer
          due,      \* ghost: what the request should find, once it is clear
          response, \* the HttpResponse of the last direct call
          output    \* what handle_request() last wrote to its caller

server == <<config, running, tcp, foreign>>
files == <<disk, changes>>
reading == <<request, handle, size, count, due>>
vars == <<server, files, pc, reading, buffer, response, output>>

Entries == {<<root, path>> : root \in Roots, path \in Paths \ Upward}
Index(name) == Append(name, "index.html")
Folders == {<<root, path>> : root \in Roots, path \in Sites}
Names == Entries \cup {Index(name) : name \in Folders}
IsFile(content) == content \notin {Absent, Directory}

\* n units; those of no file, version 0, are zeros.
Content(name, n, version) == [i \in 1..n |-> [of |-> name, version |-> version]]

ASSUME HttpNames ==
  /\ None \notin Names
  /\ Absent # Directory
  /\ \A name \in Names, n \in Lengths \cup InitialLengths, version \in 0..MaxChanges :
        Content(name, n, version) # Directory

\* What may be on the disk at first: an index lies in a directory.
AtFirst(name) == {Absent} \cup {Content(name, n, 0) : n \in InitialLengths}
                   \cup (IF name \in Folders THEN {Directory} ELSE {})
InDirectory(d, name) == name \in Entries \/ d[name] = Absent \/ d[Front(name)] = Directory
InitialDisks == {d \in [Names -> UNION {AtFirst(name) : name \in Names}] :
                   \A name \in Names : d[name] \in AtFirst(name) /\ InDirectory(d, name)}

Closed == [name |-> None, kept |-> <<>>]

Init == /\ config \in Roots
        /\ running = "no"
        /\ tcp = "closed"
        /\ foreign = "no"
        /\ disk \in InitialDisks
        /\ changes = 0
        /\ pc = "idle"
        /\ request = None
        /\ handle = Closed
        /\ size = 0
        /\ count = 0
        /\ buffer = Content(None, BufferSize, 0)
        /\ due = Unknown
        /\ response = None
        /\ output = None

----------------------------------------------------------------------------
\* init(), which refuses while the server runs.
InitServer(root) == /\ pc = "idle"
                    /\ running = "no"
                    /\ config' = root
                    /\ UNCHANGED <<running, tcp, foreign, files, pc, reading,
                                   buffer, response, output>>

\* variant: the server runs also when the transport did not open
RunningAfterAny(opened) == "yes"

\* What start() does with the answer of open().
RunningAfter(opened) == IF opened = "open" THEN "yes" ELSE "no"

\* Opening fails when the system lacks a socket or a port, and does nothing when
\* another user has opened the transport.
Start == /\ pc = "idle"
         /\ running = "no"
         /\ tcp' \in {tcp, "open"}
         /\ running' = RunningAfter(tcp')
         /\ UNCHANGED <<config, foreign, files, pc, reading, buffer, response, output>>

Stop == /\ pc = "idle"
        /\ running = "yes"
        /\ running' = "no"
        /\ tcp' = "closed"
        /\ foreign' = "no"
        /\ UNCHANGED <<config, files, pc, reading, buffer, response, output>>

\* Another user of the transport in the process.
OtherOpens == /\ pc = "idle"
              /\ tcp = "closed"
              /\ tcp' = "open"
              /\ foreign' = "no"
              /\ UNCHANGED <<config, running, files, pc, reading, buffer, response, output>>

OtherCloses == /\ pc = "idle"
               /\ tcp = "open"
               /\ tcp' = "closed"
               /\ foreign' = running
               /\ UNCHANGED <<config, running, files, pc, reading, buffer, response, output>>

----------------------------------------------------------------------------
\* Where a body is: in the static buffer, of which it takes size, or elsewhere.
Shared(n) == [in |-> "buffer", size |-> n]
Own(bytes) == [in |-> "memory", size |-> Len(bytes), bytes |-> bytes]
BodyOf(r) == IF r.body.in = "buffer" THEN SubSeq(buffer, 1, r.body.size) ELSE r.body.bytes

Page(status) == Own(Content(None, 1, status))
ErrorPage(status) == [status |-> status, length |-> Page(status).size, body |-> Page(status)]
FilePage(n) == [status |-> 200, length |-> n, body |-> Shared(n)]

\* A HEAD request is answered without the body, and with its length.
WithoutBody(page) == [page EXCEPT !.body = Own(<<>>)]

\* The body of what build_http_response() writes.
Copied(r) == Own(BodyOf(r))

\* A page, and what the ghosts remember of the request that it answers.
Note(page, method, name, found) ==
  [status |-> page.status, length |-> page.length, body |-> page.body,
   method |-> method, name |-> name, due |-> found]

\* handle_request() writes what it builds, unless that does not fit.
Written(r) == IF r.body.size <= OutputSize THEN [r EXCEPT !.body = Copied(r)] ELSE None

\* http_handle_get() or _head() returns this page, and handle_request() answers
\* with it.  The model forgets the request.
Return(page, found) ==
  LET r == Note(IF request.method = "HEAD" THEN WithoutBody(page) ELSE page,
                request.method, request.name, found)
  IN  /\ pc' = "idle"
      /\ IF request.by = "server"
         THEN output' = Written(r) /\ response' = response
         ELSE output' = output /\ response' = r
      /\ request' = None
      /\ handle' = Closed
      /\ size' = 0
      /\ count' = 0
      /\ due' = Unknown
      /\ UNCHANGED <<server, files, buffer>>

\* A request for a method that is not served.  One without CRLF or with too few words
\* fails with ERR_FORMAT and changes nothing.
Unserved == /\ pc = "idle"
            /\ output' = Written(Note(ErrorPage(500), "other", None, Unknown))
            /\ UNCHANGED <<server, files, pc, reading, buffer, response>>

\* A request for a path; one through the server is for its root.  Whoever makes it is
\* through with what he got before, which the code does not ask for: all answers point
\* into one buffer (http.cpp:210).
Request(by, method, root, path) ==
  /\ pc = "idle"
  /\ by = "server" => root = config
  /\ pc' = "stat"
  /\ request' = [by |-> by, method |-> method, root |-> root, path |-> path,
                 name |-> <<root, path>>]
  /\ response' = None
  /\ output' = IF by = "server" THEN None ELSE output
  /\ UNCHANGED <<server, files, handle, size, count, due, buffer>>

Refuse == /\ pc = "stat"
          /\ request.path \in Upward
          /\ Return(ErrorPage(404), Absent)

Stat == /\ pc = "stat"
        /\ request.path \notin Upward
        /\ request' = [request EXCEPT !.name =
                         IF disk[@] = Directory THEN Index(@) ELSE @]
        /\ pc' = "open"
        /\ UNCHANGED <<server, files, handle, size, count, due, buffer, response, output>>

\* Opening a directory succeeds too.
Open == /\ pc = "open"
        /\ disk[request.name] # Absent
        /\ handle' = [name |-> request.name, kept |-> <<>>]
        /\ due' = IF IsFile(disk[request.name]) THEN disk[request.name] ELSE Unknown
        /\ pc' = "size"
        /\ UNCHANGED <<server, files, request, size, count, buffer, response, output>>

OpenFails == /\ pc = "open"
             /\ disk[request.name] = Absent
             /\ Return(ErrorPage(404), Absent)

\* variant: what is under the name by now
HeldByName(h) == disk[request.name]

\* The file that is open, whatever has become of its name.
Held(h) == IF h.name = None THEN h.kept ELSE disk[h.name]

\* What ftell() says of it: of a directory nothing or much, as its file system has it.
Told(content) == IF IsFile(content) THEN {Len(content)} ELSE {0, BufferSize + 1}

Size == /\ pc = "size"
        /\ size' \in {n \in Told(Held(handle)) : n <= BufferSize}
        /\ pc' = "read"
        /\ UNCHANGED <<server, files, request, handle, count, due, buffer, response, output>>

SizeFails == /\ pc = "size"
             /\ \E n \in Told(Held(handle)) : n > BufferSize
             /\ Return(ErrorPage(404), due)

\* Nothing can be read from a directory.
Readable(h) == IF IsFile(Held(h)) THEN Held(h) ELSE <<>>

\* A piece of the file as it is now replaces what lay there in the buffer.
Read(n) == /\ pc = "read"
           /\ count + n <= size
           /\ count + n <= Len(Readable(handle))
           /\ buffer' = SubSeq(buffer, 1, count) \o SubSeq(Readable(handle), count + 1, count + n)
                          \o SubSeq(buffer, count + n + 1, Len(buffer))
           /\ count' = count + n
           /\ UNCHANGED <<server, files, pc, request, handle, size, due, response, output>>

\* fread() returns: all is read, or the file has ended early.
\* variant: waits for the rest
AllRead == count = size

ReadOver == count = size \/ count >= Len(Readable(handle))

\* variant: takes the size for what was read
PageOfSize == FilePage(size)

PageRead == IF count = size THEN FilePage(size) ELSE ErrorPage(404)

EndRead == /\ pc = "read"
           /\ ReadOver
           /\ Return(PageRead, due)

----------------------------------------------------------------------------
\* The disk changes under these names, and whoever has one of them open keeps it.
Change(names, content) ==
  /\ changes < MaxChanges
  /\ disk' = [name \in Names |-> IF name \in names THEN content ELSE disk[name]]
  /\ changes' = changes + 1
  /\ UNCHANGED <<server, pc, request, size, count, buffer, response, output>>

Kept(names) == /\ handle' = IF handle.name \in names
                            THEN [name |-> None, kept |-> disk[handle.name]] ELSE handle
               /\ due' = due

NewContents(name) == {Content(name, n, changes + 1) : n \in Lengths}

\* A new file takes the name.
Replace(name, content) == /\ disk[name] # Directory
                          /\ name \notin Entries => disk[Front(name)] = Directory
                          /\ Change({name}, content)
                          /\ Kept({name})

MakeDirectory(name) == /\ disk[name] = Absent
                       /\ Change({name}, Directory)
                       /\ Kept({name})

\* A file goes, or a directory with what is in it.
Delete(name) ==
  LET gone == {name} \cup (IF disk[name] = Directory THEN {Index(name)} ELSE {})
  IN  /\ disk[name] # Absent
      /\ Change(gone, Absent)
      /\ Kept(gone)

\* A file is written anew in its place, also for those who have opened it.
Rewrite(name, content) == /\ IsFile(disk[name])
                          /\ Change({name}, content)
                          /\ handle' = handle
                          /\ due' = IF handle.name = name THEN Unknown ELSE due

Serve == \/ Refuse \/ Stat \/ Open \/ OpenFails \/ Size \/ SizeFails
         \/ \E n \in 1..BufferSize : Read(n)
         \/ EndRead

Next == \/ \E root \in Roots : InitServer(root)
        \/ Start \/ Stop \/ OtherOpens \/ OtherCloses
        \/ Unserved
        \/ \E by \in {"server", "caller"}, method \in {"GET", "HEAD"}, root \in Roots, path \in Paths :
              Request(by, method, root, path)
        \/ Serve
        \/ \E name \in Names :
              \/ \E content \in NewContents(name) : Replace(name, content) \/ Rewrite(name, content)
              \/ Delete(name)
        \/ \E name \in Folders : MakeDirectory(name)

\* The one thread goes on with a request.
Spec == Init /\ [][Next]_vars /\ WF_vars(Serve)

----------------------------------------------------------------------------
\* An answer to a request that found what due says: the page with the content, whole,
\* or without it for HEAD, and its length; or "Not Found" if there is none, or one
\* that the buffer cannot take.
Right(r) ==
  IF r.due # Absent /\ Len(r.due) <= BufferSize
  THEN /\ r.status = 200
       /\ r.length = Len(r.due)
       /\ BodyOf(r) = IF r.method = "HEAD" THEN <<>> ELSE r.due
  ELSE r.status = 404 /\ r.length = 1

Clear(r) == r # None /\ r.due # Unknown

\* Each answer is the file that had the name when it was opened, whatever becomes of
\* the name afterwards, unless somebody writes to that file itself.  What
\* handle_request() wrote stays so over later requests, and an HttpResponse, whose
\* body lies in the static buffer (http.cpp:210), until the next request.
AnswersAreRight == /\ Clear(output) => Right(output)
                   /\ Clear(response) => Right(response)

\* Even then, no part of a body is another file's, which the buffer holds from
\* requests before, and the length is that of the body.
NothingStale ==
  \A r \in {output, response} :
     r # None /\ r.status = 200 =>
        /\ \A i \in 1..Len(BodyOf(r)) : BodyOf(r)[i].of = r.name
        /\ r.method = "GET" => r.length = Len(BodyOf(r))

\* A server that runs has its transport, unless another user closed it
\* (http_server.cpp:66).
RunningIsOpen == running = "yes" => tcp = "open" \/ foreign = "yes"

\* Every request is answered, also when the file shrinks while it is read.
AnswerComes == (pc # "idle") ~> (pc = "idle")
=============================================================================
