------------------------------ MODULE FileServer ------------------------------
(***************************************************************************)
(* The file server (HTTPServer.java, Worker.java) with its upload client   *)
(* (Client.java, WorkerClient.java) and browsers.  The server has a thread *)
(* per connection, the client process one per upload.  They share the      *)
(* uploaded files and the log, without a lock.                             *)
(*                                                                         *)
(* Nobody closes a socket on the client's side: that is left to the        *)
(* garbage collector and to the end of the process.                        *)
(***************************************************************************)
EXTENDS Naturals, Sequences

CONSTANTS
  Upload,     \* the uploads, each a connection and a WorkerClient
  Get,        \* the connections of browsers
  Chunks,     \* of each upload: the number of chunks of its file
  Name,       \* the file names the user may type
  Absent,     \* those that the client does not have
  Refused,    \* those without an allowed extension, or with a blank
  Unwritable, \* those the server cannot open for writing
  Scenario,   \* who takes part: the connections made, the names the user
              \* types and what the browsers ask for
  Hole        \* what a file holds where nobody has written

Connection == Upload \cup Get

(* What a browser may ask for.                                             *)
Listing == {"/", "directory", "nothing"} \* answered through a PrintWriter alone
File    == {"typed", "untyped"}          \* whether probeContentType finds a type
Request == Listing \cup File \cup {"no path", "no GET"}
Long    == {"/", "directory", "typed"}   \* what may not fit into a socket's buffers

ASSUME FileServerAssumption ==
  /\ Chunks \in [Upload -> Nat]
  /\ Upload \cap Get = {}
  /\ Absent \cup Refused \cup Unwritable \subseteq Name
  /\ Scenario \subseteq [made : SUBSET Connection, names : [Upload -> Name],
                         asks : [Get -> Request]]

VARIABLES
  client,   \* where each WorkerClient is in run
  process,  \* the client process: running, told to exit, or over
  fileName, \* of each upload
  conn,     \* the client's end of each connection
  inbox,    \* what the server has yet to read: RequestLine, then chunks
  sent,     \* the chunks each upload has sent
  worker,   \* where each Worker is in run
  request,  \* what each browser asked for
  room,     \* whether what the worker has to say fits into the buffers of the
            \* connection and what the browser has read
  answer,   \* what each worker has answered; "whole" and "cut": all that a
            \* browser asked for, as far as the connection took it
  written,  \* the position of each worker in its file
  stored,   \* the uploaded files
  log,      \* the log file
  lost      \* the entries it did not take: history

clientVars == <<client, process, fileName, sent, request, room>>
vars == <<clientVars, conn, inbox, worker, answer, written, stored, log, lost>>

RequestLine == 0
Chunk == Upload \X (Nat \ {0})

TypeOK ==
  /\ client \in [Upload -> {"new", "connected", "asked", "sending", "over"}]
  /\ process \in {"running", "exiting", "over"}
  /\ fileName \in [Upload -> Name]
  /\ conn \in [Connection -> {"never", "none", "open", "closed"}]
  /\ inbox \in [Connection -> Seq(Nat)]
  /\ {sent, written} \subseteq [Upload -> Nat]
  /\ \A u \in Upload : sent[u] <= Chunks[u] /\ written[u] <= sent[u]
  /\ worker \in [Connection -> {"none", "reading", "granted", "copying", "serving",
                                "sending", "served", "stored", "closed"}]
  /\ request \in [Get -> Request] /\ room \in [Get -> BOOLEAN]
  /\ answer \in [Connection -> {"none", "OK", "ERROR", "400", "header", "whole",
                                "cut"}]
  /\ stored \in [Name -> Seq(Chunk \cup {Hole})]
  /\ log \in Seq({"request", "response"} \X Get)
  /\ lost \subseteq {"request", "response"} \X Get

Init ==
  /\ client = [u \in Upload |-> "new"]
  /\ process = "running"
  /\ \E s \in Scenario :
       /\ fileName = s.names /\ request = s.asks
       /\ conn = [c \in Connection |-> IF c \in s.made THEN "none" ELSE "never"]
  /\ inbox = [c \in Connection |-> <<>>]
  /\ sent = [u \in Upload |-> 0]
  /\ worker = [c \in Connection |-> "none"]
  /\ answer = [c \in Connection |-> "none"]
  /\ written = [u \in Upload |-> 0]
  /\ stored = [f \in Name |-> <<>>]
  /\ room = [g \in Get |-> FALSE]
  /\ log = <<>> /\ lost = {}

Over == {"stored", "closed"}
Arrive(c, item) == inbox' = [inbox EXCEPT ![c] = Append(@, item)]

-----------------------------------------------------------------------------
(***************************************************************************)
(* The upload client.                                                      *)
(***************************************************************************)

(* The user names a file, and a WorkerClient connects.  With no such file  *)
(* the FileInputStream throws, and the connection stays as it is.          *)
Start(u) ==
  /\ process = "running" /\ client[u] = "new" /\ conn[u] = "none"
  /\ conn' = [conn EXCEPT ![u] = "open"]
  /\ client' = [client EXCEPT ![u] = IF fileName[u] \in Absent THEN "over"
                                                               ELSE "connected"]
  /\ UNCHANGED <<process, fileName, sent, request, room, inbox, worker, answer,
                 written, stored, log, lost>>

Ask(u) ==
  /\ client[u] = "connected"
  /\ Arrive(u, RequestLine)
  /\ client' = [client EXCEPT ![u] = "asked"]
  /\ UNCHANGED <<process, fileName, sent, request, room, conn, worker, answer,
                 written, stored, log, lost>>

(* Mutant: it does not wait for the answer.                                *)
ReadAnswerUnasked(u) ==
  /\ client[u] = "asked"
  /\ client' = [client EXCEPT ![u] = IF answer[u] = "ERROR" THEN "over"
                                                            ELSE "sending"]
  /\ UNCHANGED <<process, fileName, sent, request, room, conn, inbox, worker,
                 answer, written, stored, log, lost>>

(* Anything but an error, the end of the stream included, is a go-ahead.   *)
ReadAnswer(u) ==
  /\ client[u] = "asked"
  /\ answer[u] # "none" \/ worker[u] \in Over
  /\ client' = [client EXCEPT ![u] = IF answer[u] = "ERROR" THEN "over"
                                                            ELSE "sending"]
  /\ UNCHANGED <<process, fileName, sent, request, room, conn, inbox, worker,
                 answer, written, stored, log, lost>>

(* Mutant: a chunk past the end.                                           *)
SendChunkPastEnd(u) ==
  /\ client[u] = "sending" /\ sent[u] <= Chunks[u]
  /\ worker[u] \notin Over
  /\ Arrive(u, sent[u] + 1)
  /\ sent' = [sent EXCEPT ![u] = @ + 1]
  /\ UNCHANGED <<client, process, fileName, request, room, conn, worker,
                 answer, written, stored, log, lost>>

SendChunk(u) ==
  /\ client[u] = "sending" /\ sent[u] < Chunks[u]
  /\ worker[u] \notin Over
  /\ Arrive(u, sent[u] + 1)
  /\ sent' = [sent EXCEPT ![u] = @ + 1]
  /\ UNCHANGED <<client, process, fileName, request, room, conn, worker,
                 answer, written, stored, log, lost>>

(* Mutant: the client waits for the confirmation.                          *)
EndUploadConfirmed(u) ==
  /\ client[u] = "sending"
  /\ worker[u] \in Over
  /\ client' = [client EXCEPT ![u] = "over"]
  /\ UNCHANGED <<process, fileName, sent, request, room, conn, inbox, worker,
                 answer, written, stored, log, lost>>

(* All is sent, or the server has closed and a write fails.                *)
EndUpload(u) ==
  /\ client[u] = "sending"
  /\ sent[u] = Chunks[u] \/ worker[u] \in Over
  /\ client' = [client EXCEPT ![u] = "over"]
  /\ UNCHANGED <<process, fileName, sent, request, room, conn, inbox, worker,
                 answer, written, stored, log, lost>>

(* The socket of a thread that is over may be collected, or never.         *)
Collect(u) ==
  /\ client[u] = "over" /\ conn[u] = "open"
  /\ conn' = [conn EXCEPT ![u] = "closed"]
  /\ UNCHANGED <<clientVars, inbox, worker, answer, written, stored, log,
                 lost>>

UserExits ==
  /\ process = "running"
  /\ process' = "exiting"
  /\ UNCHANGED <<client, fileName, sent, request, room, conn, inbox, worker,
                 answer, written, stored, log, lost>>

(* The end of the process closes what is left of its sockets.              *)
ClosedAll ==
  [c \in Connection |-> IF c \in Upload /\ conn[c] = "open" THEN "closed" ELSE conn[c]]

(* The process ends once its threads are over, and its sockets with it.    *)
ProcessEnds ==
  /\ process = "exiting"
  /\ \A u \in Upload : client[u] \in {"new", "over"}
  /\ process' = "over"
  /\ conn' = ClosedAll
  /\ UNCHANGED <<client, fileName, sent, request, room, inbox, worker, answer,
                 written, stored, log, lost>>

(* It is killed, in the middle of whatever its threads do.                 *)
Killed ==
  /\ process # "over"
  /\ process' = "over"
  /\ client' = [u \in Upload |-> IF client[u] = "new" THEN "new" ELSE "over"]
  /\ conn' = ClosedAll
  /\ UNCHANGED <<fileName, sent, request, room, inbox, worker, answer, written,
                 stored, log, lost>>

(* A browser connects and asks.  It may read the answer or not, and leave  *)
(* at any time.                                                            *)
BrowserAsks(g) ==
  /\ conn[g] = "none"
  /\ conn' = [conn EXCEPT ![g] = "open"]
  /\ Arrive(g, RequestLine)
  /\ \E fits \in BOOLEAN : room' = [room EXCEPT ![g] = fits]
  /\ UNCHANGED <<client, process, fileName, sent, request, worker, answer,
                 written, stored, log, lost>>

BrowserReads(g) ==
  /\ conn[g] = "open" /\ ~room[g]
  /\ room' = [room EXCEPT ![g] = TRUE]
  /\ UNCHANGED <<client, process, fileName, sent, request, conn, inbox, worker,
                 answer, written, stored, log, lost>>

BrowserLeaves(g) ==
  /\ conn[g] = "open"
  /\ conn' = [conn EXCEPT ![g] = "closed"]
  /\ UNCHANGED <<clientVars, inbox, worker, answer, written, stored, log,
                 lost>>

-----------------------------------------------------------------------------
(***************************************************************************)
(* The server.                                                             *)
(***************************************************************************)
Goes(c, where) == worker' = [worker EXCEPT ![c] = where]
Tells(c, what) == answer' = [answer EXCEPT ![c] = what]

(* logRequest and logResponse: an IOException is caught, and nothing is    *)
(* logged.                                                                 *)
Logs(kind, g) ==
  \/ log' = Append(log, <<kind, g>>) /\ UNCHANGED lost
  \/ lost' = lost \cup {<<kind, g>>} /\ UNCHANGED log

(* A write of all the worker has to say returns; otherwise it waits for    *)
(* the browser, without a timeout.                                         *)
Fits(g) == room[g] \/ request[g] \notin Long

Accept(c) ==
  /\ conn[c] \in {"open", "closed"} /\ worker[c] = "none"
  /\ Goes(c, "reading")
  /\ UNCHANGED <<clientVars, conn, inbox, answer, written, stored, log, lost>>

(* readLine finds the end of the stream.                                   *)
NoRequest(c) ==
  /\ worker[c] = "reading"
  /\ inbox[c] = <<>> /\ conn[c] = "closed"
  /\ Tells(c, "400")
  /\ Goes(c, "closed")
  /\ UNCHANGED <<clientVars, conn, inbox, written, stored, log, lost>>

(* The BufferedReader takes what has arrived, which may be more than the   *)
(* line.                                                                   *)
TakeLine(c) ==
  /\ inbox[c] # <<>>
  /\ \E k \in 1 .. Len(inbox[c]) : inbox' = [inbox EXCEPT ![c] = SubSeq(@, k + 1, Len(@))]

(* An UPLOAD: the answer is given before the file is opened.               *)
ReadUpload(u) ==
  /\ worker[u] = "reading"
  /\ TakeLine(u)
  /\ IF fileName[u] \in Refused THEN Tells(u, "ERROR") /\ Goes(u, "closed")
                                ELSE Tells(u, "OK") /\ Goes(u, "granted")
  /\ UNCHANGED <<clientVars, conn, written, stored, log, lost>>

(* Mutant: the file is opened for appending.                               *)
OpenFileAppending(u) ==
  /\ worker[u] = "granted"
  /\ UNCHANGED stored
  /\ written' = [written EXCEPT ![u] = Len(stored[fileName[u]])]
  /\ Goes(u, "copying")
  /\ UNCHANGED <<clientVars, conn, inbox, answer, log, lost>>

(* The FileOutputStream empties the file, or throws.                       *)
OpenFile(u) ==
  /\ worker[u] = "granted"
  /\ IF fileName[u] \in Unwritable
     THEN Goes(u, "closed") /\ UNCHANGED stored
     ELSE Goes(u, "copying") /\ stored' = [stored EXCEPT ![fileName[u]] = <<>>]
  /\ UNCHANGED <<clientVars, conn, inbox, answer, written, log, lost>>

(* A file after a write at a position that may be past its end.            *)
WriteAt(cells, at, cell) ==
  [k \in 1 .. (IF at > Len(cells) THEN at ELSE Len(cells)) |->
     IF k = at THEN cell ELSE IF k <= Len(cells) THEN cells[k] ELSE Hole]

CopyChunk(u) ==
  /\ worker[u] = "copying" /\ inbox[u] # <<>>
  /\ inbox' = [inbox EXCEPT ![u] = Tail(@)]
  /\ written' = [written EXCEPT ![u] = @ + 1]
  /\ stored' = [stored EXCEPT ![fileName[u]] =
                  WriteAt(@, written[u] + 1, <<u, Head(inbox[u])>>)]
  /\ UNCHANGED <<clientVars, conn, worker, answer, log, lost>>

(* Mutant: the worker waits for the whole file.                            *)
EndCopyWhole(u) ==
  /\ worker[u] = "copying" /\ inbox[u] = <<>> /\ conn[u] = "closed"
  /\ written[u] = Chunks[u]
  /\ Goes(u, "stored")
  /\ UNCHANGED <<clientVars, conn, inbox, answer, written, stored, log, lost>>

(* The end of the stream.  The confirmation is printed, but not flushed:   *)
(* the client is not told.                                                 *)
EndCopy(u) ==
  /\ worker[u] = "copying" /\ inbox[u] = <<>> /\ conn[u] = "closed"
  /\ Goes(u, "stored")
  /\ UNCHANGED <<clientVars, conn, inbox, answer, written, stored, log, lost>>

(* The client was killed before it read the answer: the connection is      *)
(* reset, and read throws.                                                 *)
Disconnected(u) ==
  /\ worker[u] = "copying" /\ conn[u] = "closed" /\ sent[u] = 0
  /\ Goes(u, "closed")
  /\ UNCHANGED <<clientVars, conn, inbox, answer, written, stored, log, lost>>

(* A browser's request.  Only a GET is logged; one without a path then     *)
(* throws out of the thread.                                               *)
ReadGet(g) ==
  /\ worker[g] = "reading"
  /\ TakeLine(g)
  /\ \/ /\ request[g] = "no GET"
        /\ Tells(g, "400") /\ Goes(g, "closed") /\ UNCHANGED <<log, lost>>
     \/ /\ request[g] = "no path"
        /\ Goes(g, "closed") /\ Logs("request", g) /\ UNCHANGED answer
     \/ /\ request[g] \notin {"no GET", "no path"}
        /\ Goes(g, "serving") /\ Logs("request", g) /\ UNCHANGED answer
  /\ UNCHANGED <<clientVars, conn, written, stored>>

(* A listing or an error goes through the PrintWriter, which hides it if   *)
(* the browser has left and only a part or nothing was written.            *)
(* getMimeType gives null for a file of no known type, and the thread ends.*)
Answer(g) ==
  /\ worker[g] = "serving"
  /\ \/ /\ request[g] \in Listing /\ Goes(g, "served")
        /\ \/ Fits(g) /\ Tells(g, "whole")
           \/ conn[g] = "closed" /\ Tells(g, "cut")
     \/ request[g] = "typed" /\ Tells(g, "header") /\ Goes(g, "sending")
     \/ request[g] = "untyped" /\ UNCHANGED answer /\ Goes(g, "closed")
  /\ UNCHANGED <<clientVars, conn, inbox, written, stored, log, lost>>

(* Mutant: it waits for a browser that has left.                           *)
SendBodyToBrowser(g) ==
  /\ worker[g] = "sending"
  /\ conn[g] = "open" /\ Fits(g) /\ Tells(g, "whole") /\ Goes(g, "served")
  /\ UNCHANGED <<clientVars, conn, inbox, written, stored, log, lost>>

(* The body of a file goes to the socket, which throws if the browser has  *)
(* left.                                                                   *)
SendBody(g) ==
  /\ worker[g] = "sending"
  /\ \/ Fits(g) /\ Tells(g, "whole") /\ Goes(g, "served")
     \/ conn[g] = "closed" /\ UNCHANGED answer /\ Goes(g, "closed")
  /\ UNCHANGED <<clientVars, conn, inbox, written, stored, log, lost>>

(* Mutant: logged when the header is out.                                  *)
LogResponseEarly(g) ==
  /\ worker[g] \in {"sending", "served"} /\ <<"response", g>> \notin {log[k] : k \in DOMAIN log}
  /\ Logs("response", g)
  /\ worker' = [worker EXCEPT ![g] = IF @ = "served" THEN "closed" ELSE @]
  /\ UNCHANGED <<clientVars, conn, inbox, answer, written, stored>>

LogResponse(g) ==
  /\ worker[g] = "served"
  /\ Logs("response", g)
  /\ Goes(g, "closed")
  /\ UNCHANGED <<clientVars, conn, inbox, answer, written, stored>>

-----------------------------------------------------------------------------
ClientSteps(u) == Ask(u) \/ ReadAnswer(u) \/ SendChunk(u) \/ EndUpload(u)
UploadSteps(u) == NoRequest(u) \/ ReadUpload(u) \/ OpenFile(u) \/ CopyChunk(u)
                    \/ EndCopy(u) \/ Disconnected(u)
GetSteps(g)    == NoRequest(g) \/ ReadGet(g) \/ Answer(g) \/ SendBody(g) \/ LogResponse(g)

Next ==
  \/ \E u \in Upload : Start(u) \/ ClientSteps(u) \/ Collect(u) \/ UploadSteps(u)
  \/ UserExits \/ ProcessEnds \/ Killed
  \/ \E g \in Get : BrowserAsks(g) \/ BrowserReads(g) \/ BrowserLeaves(g) \/ GetSteps(g)
  \/ \E c \in Connection : Accept(c)

(* Every thread that can go on does in the end.  Nothing is assumed of the *)
(* user, of the garbage collector, or of browsers.                         *)
Fairness ==
  /\ \A c \in Connection : WF_vars(Accept(c))
  /\ \A u \in Upload : WF_vars(ClientSteps(u)) /\ WF_vars(UploadSteps(u))
  /\ \A g \in Get : WF_vars(GetSteps(g))
  /\ WF_vars(ProcessEnds)

Spec == Init /\ [][Next]_vars /\ Fairness

-----------------------------------------------------------------------------
(***************************************************************************)
(* Properties.                                                             *)
(***************************************************************************)

(* The uploads that ever opened the file.                                  *)
Writers(f) ==
  {u \in Upload : /\ fileName[u] = f /\ answer[u] = "OK"
                  /\ worker[u] \in {"copying", "stored", "closed"}}

(* An upload that had its file to itself is stored as far as it was sent,  *)
(* in order and without a gap, also when the client was killed half way:   *)
(* no chunk is taken by the reader of the request line.                    *)
UploadIsWhole ==
  \A u \in Upload :
    worker[u] = "stored" /\ Writers(fileName[u]) = {u} =>
      stored[fileName[u]] = [k \in 1 .. sent[u] |-> <<u, k>>]

(* Uploads of one name at a time mix, but each writes at its own places:   *)
(* position k of the file holds the k-th chunk of one of them.             *)
ChunksInPlace ==
  \A f \in Name : \A k \in DOMAIN stored[f] :
    stored[f][k] # Hole =>
      stored[f][k][2] = k /\ fileName[stored[f][k][1]] = f

(* The log tells the truth: a request is logged once and before its        *)
(* response, and a response once its worker is through with the answer, of *)
(* a file only if all of it was written.  A listing or an error is logged  *)
(* even if the browser left before all was written.  Whoever is through    *)
(* has logged it, or tried to.                                             *)
LogIsTrue ==
  \A g \in Get :
    LET of(kind)   == {k \in DOMAIN log : log[k] = <<kind, g>>}
        told(kind) == of(kind) # {} \/ <<kind, g>> \in lost
    IN  /\ \A kind \in {"request", "response"} : \A j, k \in of(kind) : j = k
        /\ \A j \in of("request"), k \in of("response") : j < k
        /\ of("response") # {} =>
             /\ told("request")
             /\ answer[g] \in {"whole", "cut"}
             /\ request[g] \in File => answer[g] = "whole"
        /\ worker[g] = "closed" /\ answer[g] \in {"whole", "cut"} => told("response")

(* Every request of a browser ends with its connection closed, once the    *)
(* browser has left or the answer fits into what it reads.  Only a browser *)
(* that stays and does not read keeps its worker, as no write times out.   *)
GetsEnd ==
  \A g \in Get :
    conn[g] = "closed" \/ (conn[g] = "open" /\ Fits(g)) ~> worker[g] = "closed"

(* A worker waits for an upload to end as long as the client lives, whose  *)
(* sockets nobody closes; but once the client process is over, however it  *)
(* ended, none of its workers stays behind.                                *)
WorkersEnd ==
  \A u \in Upload : (process = "over" /\ client[u] # "new") ~> worker[u] \in Over

(* An upload never hangs on the server: the client's thread always ends,   *)
(* so the process does too once the user has asked for it.                 *)
ExitIsReached == process = "exiting" ~> process = "over"
=============================================================================
