-------------------------- MODULE FileServerProofs --------------------------
(***************************************************************************)
(* Module FileServer for any number of uploads and browsers, files of any  *)
(* length and any names: what is stored, and what is logged.               *)
(***************************************************************************)
EXTENDS FileServer, TLAPS

(***************************************************************************)
(* The invariant.  Of an upload: how far its two ends may be apart.  Until *)
(* the server has read the request line nothing but that line is on its    *)
(* way, as the client waits for the answer; from then on the chunks on     *)
(* their way are those between the last written and the last sent.         *)
(***************************************************************************)
Pending(ib, wr, st) ==
  /\ Len(ib) = st - wr
  /\ \A k \in 1 .. Len(ib) : ib[k] = wr + k

Handshake(cl, cn, ib, st, wk, an, wr) ==
  /\ cl = "new" => cn \in {"never", "none"}
  /\ cl \in {"connected", "asked", "sending"} => cn = "open"
  /\ cl \in {"new", "connected"} => wk \in {"none", "reading"} /\ ib = <<>>
  /\ wk \in {"none", "reading"} =>
       /\ an = "none" /\ st = 0 /\ wr = 0 /\ cl # "sending"
       /\ ib = <<>> \/ ib = <<RequestLine>>
  /\ wk \in {"granted", "copying", "stored"} => an = "OK" /\ Pending(ib, wr, st)
  /\ wk = "granted" => wr = 0
  /\ wk = "stored" => wr = st /\ cn = "closed"
  /\ wk \in {"none", "reading", "granted", "copying", "stored", "closed"}

Uploads ==
  \A u \in Upload :
    Handshake(client[u], conn[u], inbox[u], sent[u], worker[u], answer[u],
              written[u])

(* Of a file with one writer: it is what that upload has written.          *)
WholeSoFar ==
  \A u \in Upload :
    worker[u] \in {"copying", "stored"} /\ Writers(fileName[u]) = {u} =>
      stored[fileName[u]] = [k \in 1 .. written[u] |-> <<u, k>>]

(* Of a browser's request: what its worker has told and logged, or tried   *)
(* to.                                                                     *)
Logged(l, kind, g) == \E k \in DOMAIN l : l[k] = <<kind, g>>

Told(l, ls, kind, g) == Logged(l, kind, g) \/ <<kind, g>> \in ls

Ordered(l, g) ==
  /\ \A kind \in {"request", "response"} : \A j, k \in DOMAIN l :
       l[j] = <<kind, g>> /\ l[k] = <<kind, g>> => j = k
  /\ \A j, k \in DOMAIN l :
       l[j] = <<"request", g>> /\ l[k] = <<"response", g>> => j < k

Served(g, rq, wk, an, l, ls) ==
  /\ wk \in {"none", "reading", "serving"} => an = "none"
  /\ wk = "sending" => an = "header"
  /\ wk = "served" => an \in {"whole", "cut"}
  /\ an = "cut" => rq \in Listing
  /\ Logged(l, "request", g) => wk \notin {"none", "reading"}
  /\ wk \in {"serving", "sending", "served"} => Told(l, ls, "request", g)
  /\ Logged(l, "response", g) =>
       /\ wk = "closed" /\ an \in {"whole", "cut"}
       /\ Told(l, ls, "request", g)
  /\ wk = "closed" /\ an \in {"whole", "cut"} => Told(l, ls, "response", g)
  /\ Ordered(l, g)

Gets ==
  \A g \in Get : Served(g, request[g], worker[g], answer[g], log, lost)

Inv ==
  /\ TypeOK
  /\ Uploads /\ WholeSoFar /\ ChunksInPlace /\ Gets

-----------------------------------------------------------------------------
(***************************************************************************)
(* Sequences: what arrives, what is taken and what is written.             *)
(***************************************************************************)
LEMMA Appended ==
  ASSUME NEW S, NEW l \in Seq(S), NEW x \in S
  PROVE  /\ Append(l, x) \in Seq(S) /\ Len(Append(l, x)) = Len(l) + 1
         /\ Len(l) \in Nat /\ DOMAIN l = 1 .. Len(l)
         /\ DOMAIN Append(l, x) = 1 .. (Len(l) + 1)
         /\ \A k \in 1 .. Len(l) : Append(l, x)[k] = l[k]
         /\ Append(l, x)[Len(l) + 1] = x
  OBVIOUS

(* What is left when the first element is taken.                           *)
LEMMA Taken ==
  ASSUME NEW S, NEW l \in Seq(S), l # <<>>
  PROVE  /\ Tail(l) \in Seq(S) /\ Len(Tail(l)) = Len(l) - 1
         /\ Len(l) \in Nat /\ Len(l) >= 1 /\ Head(l) = l[1] /\ Head(l) \in S
         /\ \A k \in 1 .. Len(Tail(l)) : Tail(l)[k] = l[k + 1]
  OBVIOUS

(* A write changes one place, and fills a gap before it with holes.        *)
LEMMA WrittenAt ==
  ASSUME NEW S, Hole \in S, NEW cells \in Seq(S), NEW x \in S,
         NEW at \in Nat, at >= 1
  PROVE  /\ WriteAt(cells, at, x) \in Seq(S)
         /\ \A k \in DOMAIN WriteAt(cells, at, x) :
              \/ k = at /\ WriteAt(cells, at, x)[k] = x
              \/ /\ k # at /\ k \in DOMAIN cells
                 /\ WriteAt(cells, at, x)[k] = cells[k]
              \/ WriteAt(cells, at, x)[k] = Hole
         /\ Len(cells) = at - 1 =>
              /\ DOMAIN WriteAt(cells, at, x) = 1 .. at
              /\ WriteAt(cells, at, x)[at] = x
              /\ \A k \in 1 .. at - 1 : WriteAt(cells, at, x)[k] = cells[k]
  <1> DEFINE n == IF at > Len(cells) THEN at ELSE Len(cells)
             w == [k \in 1 .. n |-> IF k = at THEN x
                                    ELSE IF k <= Len(cells) THEN cells[k] ELSE Hole]
  <1>1. WriteAt(cells, at, x) = w
    BY DEF WriteAt
  <1>2. Len(cells) \in Nat /\ DOMAIN cells = 1 .. Len(cells)
    OBVIOUS
  <1>3. n \in Nat /\ DOMAIN w = 1 .. n
    BY <1>2
  <1>4. \A k \in 1 .. n : w[k] = IF k = at THEN x
                                 ELSE IF k <= Len(cells) THEN cells[k] ELSE Hole
    OBVIOUS
  <1>5. \A k \in 1 .. n : w[k] \in S
    BY <1>2, <1>3, <1>4
  <1>6. w \in Seq(S)
    BY <1>3, <1>5
  <1>7. Len(cells) = at - 1 => n = at
    BY <1>2
  <1> HIDE DEF n, w
  <1>8. \A k \in DOMAIN w : \/ k = at /\ w[k] = x
                            \/ k # at /\ k \in DOMAIN cells /\ w[k] = cells[k]
                            \/ w[k] = Hole
    BY <1>2, <1>3, <1>4
  <1>9. Len(cells) = at - 1 => /\ DOMAIN w = 1 .. at /\ w[at] = x
                               /\ \A k \in 1 .. at - 1 : w[k] = cells[k]
    BY <1>2, <1>3, <1>4, <1>7
  <1> QED
    BY <1>1, <1>6, <1>8, <1>9

-----------------------------------------------------------------------------
(***************************************************************************)
(* Types.                                                                  *)
(***************************************************************************)
(* The assumption, part by part.                                           *)
LEMMA ConstantFacts ==
  /\ \A u \in Upload : Chunks[u] \in Nat
  /\ \A u \in Upload : u \notin Get
  /\ \A u \in Upload : u \in Connection
  /\ \A g \in Get : g \in Connection /\ g \notin Upload
  /\ \A c \in Connection : c \in Upload \/ c \in Get
  BY FileServerAssumption DEF Connection

(* The client's steps keep the types.                                      *)
LEMMA TypeClient ==
  ASSUME TypeOK, NEW u \in Upload,
         Start(u) \/ ClientSteps(u) \/ Collect(u)
  PROVE  TypeOK'
  <1> USE ConstantFacts
  <1>1. CASE Start(u)
    BY <1>1 DEF TypeOK, Start
  <1>2. CASE Ask(u)
    <2>1. /\ client' = [client EXCEPT ![u] = "asked"]
          /\ inbox' = [inbox EXCEPT ![u] = Append(@, 0)]
          /\ UNCHANGED <<process, fileName, sent, request, room, conn, worker,
                         answer, written, stored, log, lost>>
      BY <1>2 DEF Ask, Arrive, RequestLine
    <2> QED
      BY <2>1 DEF TypeOK
  <1>3. CASE ReadAnswer(u)
    BY <1>3 DEF TypeOK, ReadAnswer
  <1>4. CASE SendChunk(u)
    <2>1. /\ inbox' = [inbox EXCEPT ![u] = Append(@, sent[u] + 1)]
          /\ sent[u] < Chunks[u] /\ sent' = [sent EXCEPT ![u] = @ + 1]
          /\ UNCHANGED <<client, process, fileName, request, room, conn, worker,
                         answer, written, stored, log, lost>>
      BY <1>4 DEF SendChunk, Arrive
    <2>2. inbox' \in [Connection -> Seq(Nat)]
      BY <2>1 DEF TypeOK
    <2>3. /\ sent' \in [Upload -> Nat] /\ written' \in [Upload -> Nat]
          /\ \A v \in Upload : sent'[v] <= Chunks[v] /\ written'[v] <= sent'[v]
      BY <2>1 DEF TypeOK
    <2> QED
      BY <2>1, <2>2, <2>3 DEF TypeOK
  <1>5. CASE EndUpload(u)
    BY <1>5 DEF TypeOK, EndUpload
  <1>6. CASE Collect(u)
    BY <1>6 DEF TypeOK, Collect, clientVars
  <1> QED
    BY <1>1, <1>2, <1>3, <1>4, <1>5, <1>6 DEF ClientSteps

(* The end of the client process keeps the types.                          *)
LEMMA TypeProcess ==
  ASSUME TypeOK, UserExits \/ ProcessEnds \/ Killed
  PROVE  TypeOK'
  <1>1. CASE UserExits
    BY <1>1 DEF TypeOK, UserExits
  <1>2. CASE ProcessEnds
    BY <1>2 DEF TypeOK, ProcessEnds, ClosedAll
  <1>3. CASE Killed
    BY <1>3 DEF TypeOK, Killed, ClosedAll
  <1> QED
    BY <1>1, <1>2, <1>3

(* What is left of an inbox when the request line is taken.                *)
LEMMA LineTaken ==
  ASSUME TypeOK, NEW c \in Connection, TakeLine(c)
  PROVE  /\ inbox' \in [Connection -> Seq(Nat)]
         /\ \A d \in Connection : d # c => inbox'[d] = inbox[d]
         /\ inbox[c] = <<RequestLine>> => inbox'[c] = <<>>
  <1>1. PICK k \in 1 .. Len(inbox[c]) :
          inbox' = [inbox EXCEPT ![c] = SubSeq(@, k + 1, Len(@))]
    BY DEF TakeLine
  <1>2. inbox[c] \in Seq(Nat) /\ inbox \in [Connection -> Seq(Nat)]
    BY DEF TypeOK
  <1>3. SubSeq(inbox[c], k + 1, Len(inbox[c])) \in Seq(Nat)
    BY <1>2
  <1>4. ASSUME inbox[c] = <<RequestLine>>
        PROVE  SubSeq(inbox[c], k + 1, Len(inbox[c])) = <<>>
    <2>1. Len(inbox[c]) = 1 /\ k = 1
      BY <1>1, <1>4
    <2> QED
      BY <1>2, <2>1
  <1> QED
    BY <1>1, <1>2, <1>3, <1>4

(* The worker of an upload keeps the types; a chunk it stores is one.      *)
LEMMA TypeUpload ==
  ASSUME TypeOK, Uploads, NEW u \in Upload, UploadSteps(u)
  PROVE  TypeOK'
  <1> USE ConstantFacts
  <1>1. CASE NoRequest(u)
    BY <1>1 DEF TypeOK, NoRequest, Goes, Tells, clientVars
  <1>2. CASE ReadUpload(u)
    <2>1. inbox' \in [Connection -> Seq(Nat)]
      BY <1>2, LineTaken DEF ReadUpload
    <2> QED
      BY <1>2, <2>1 DEF TypeOK, ReadUpload, Goes, Tells, clientVars
  <1>3. CASE OpenFile(u)
    <2> DEFINE S == Chunk \cup {Hole}
    <2>1. stored \in [Name -> Seq(S)] /\ <<>> \in Seq(S)
      BY DEF TypeOK
    <2> HIDE DEF S
    <2>2. stored' \in [Name -> Seq(S)]
      BY <1>3, <2>1 DEF OpenFile
    <2>3. worker' \in [Connection -> {"none", "reading", "granted", "copying",
                         "serving", "sending", "served", "stored", "closed"}]
      BY <1>3 DEF TypeOK, OpenFile, Goes
    <2>4. UNCHANGED <<client, process, fileName, sent, request, room, conn, inbox,
                      answer, written, log, lost>>
      BY <1>3 DEF OpenFile, clientVars
    <2> QED
      BY <2>2, <2>3, <2>4 DEF TypeOK, S
  <1>4. CASE CopyChunk(u)
    <2> DEFINE S == Chunk \cup {Hole}
               f == fileName[u]
               x == <<u, Head(inbox[u])>>
    <2>1. /\ worker[u] = "copying" /\ inbox[u] # <<>>
          /\ inbox' = [inbox EXCEPT ![u] = Tail(@)]
          /\ written' = [written EXCEPT ![u] = @ + 1]
          /\ stored' = [stored EXCEPT ![f] = WriteAt(stored[f], written[u] + 1, x)]
          /\ UNCHANGED <<client, process, fileName, sent, request, room, conn,
                         worker, answer, log, lost>>
      BY <1>4 DEF CopyChunk, clientVars
    <2>2. /\ inbox[u] \in Seq(Nat) /\ written[u] \in Nat /\ sent[u] \in Nat
          /\ f \in Name /\ stored[f] \in Seq(S)
      BY DEF TypeOK
    <2>3. Pending(inbox[u], written[u], sent[u])
      BY <2>1 DEF Uploads, Handshake
    <2>4. /\ Len(inbox[u]) >= 1 /\ Len(inbox[u]) = sent[u] - written[u]
          /\ Head(inbox[u]) = written[u] + 1 /\ Tail(inbox[u]) \in Seq(Nat)
      <3>1. /\ Tail(inbox[u]) \in Seq(Nat) /\ Len(inbox[u]) \in Nat
            /\ Len(inbox[u]) >= 1 /\ Head(inbox[u]) = inbox[u][1]
        BY <2>1, <2>2, Taken
      <3> QED
        BY <2>3, <3>1 DEF Pending
    <2>5. x \in S
      BY <2>2, <2>4 DEF Chunk
    <2>6. WriteAt(stored[f], written[u] + 1, x) \in Seq(S)
      <3> HIDE DEF S, x
      <3>1. Hole \in S
        BY DEF S
      <3>2. written[u] + 1 \in Nat /\ written[u] + 1 >= 1
        BY <2>2
      <3>3. stored[f] \in Seq(S)
        BY <2>2
      <3> QED
        BY ONLY <2>5, <3>1, <3>2, <3>3, WrittenAt
    <2>7. inbox' \in [Connection -> Seq(Nat)] /\ stored' \in [Name -> Seq(S)]
      <3> HIDE DEF S, x, f
      <3> QED
        BY <2>1, <2>2, <2>4, <2>6 DEF TypeOK, S
    <2>8. /\ sent' \in [Upload -> Nat] /\ written' \in [Upload -> Nat]
          /\ \A v \in Upload : sent'[v] <= Chunks[v] /\ written'[v] <= sent'[v]
      BY <2>1, <2>2, <2>4 DEF TypeOK
    <2> QED
      BY <2>1, <2>7, <2>8 DEF TypeOK
  <1>5. CASE EndCopy(u)
    BY <1>5 DEF TypeOK, EndCopy, Goes, clientVars
  <1>6. CASE Disconnected(u)
    BY <1>6 DEF TypeOK, Disconnected, Goes, clientVars
  <1> QED
    BY <1>1, <1>2, <1>3, <1>4, <1>5, <1>6 DEF UploadSteps

(* So do browsers and their workers.                                       *)
LEMMA TypeGet ==
  ASSUME TypeOK, NEW g \in Get,
         BrowserAsks(g) \/ BrowserReads(g) \/ BrowserLeaves(g) \/ GetSteps(g)
  PROVE  TypeOK'
  <1> USE ConstantFacts
  <1> DEFINE Event == {"request", "response"} \X Get
  <1>1. log \in Seq(Event) /\ lost \subseteq Event
    BY DEF TypeOK
  <1>2. ASSUME NEW kind \in {"request", "response"}, Logs(kind, g)
        PROVE  log' \in Seq(Event) /\ lost' \subseteq Event
    <2> DEFINE x == <<kind, g>>
    <2>1. x \in Event
      OBVIOUS
    <2>2. \/ log' = Append(log, x) /\ UNCHANGED lost
          \/ lost' = lost \cup {x} /\ UNCHANGED log
      BY <1>2 DEF Logs
    <2> HIDE DEF Event, x
    <2> QED
      BY <1>1, <2>1, <2>2
  <1>3. CASE BrowserAsks(g)
    BY <1>3 DEF TypeOK, BrowserAsks, Arrive, RequestLine, clientVars
  <1>4. CASE BrowserReads(g) \/ BrowserLeaves(g)
    <2>1. CASE BrowserReads(g)
      <3>1. room' \in [Get -> BOOLEAN]
        BY <2>1 DEF TypeOK, BrowserReads
      <3> QED
        BY <2>1, <3>1 DEF TypeOK, BrowserReads
    <2>2. CASE BrowserLeaves(g)
      BY <2>2 DEF TypeOK, BrowserLeaves, clientVars
    <2> QED
      BY <1>4, <2>1, <2>2
  <1>5. CASE NoRequest(g)
    BY <1>5 DEF TypeOK, NoRequest, Goes, Tells, clientVars
  <1>6. CASE ReadGet(g)
    <2>1. inbox' \in [Connection -> Seq(Nat)]
      BY <1>6, LineTaken DEF ReadGet
    <2>2. log' \in Seq(Event) /\ lost' \subseteq Event
      <3>1. UNCHANGED <<log, lost>> \/ Logs("request", g)
        BY <1>6 DEF ReadGet
      <3> QED
        BY <1>1, <1>2, <3>1
    <2>3. worker' \in [Connection -> {"none", "reading", "granted", "copying",
                         "serving", "sending", "served", "stored", "closed"}]
      BY <1>6 DEF TypeOK, ReadGet, Goes
    <2>4. answer' \in [Connection -> {"none", "OK", "ERROR", "400", "header",
                                      "whole", "cut"}]
      BY <1>6 DEF TypeOK, ReadGet, Tells
    <2>5. UNCHANGED <<client, process, fileName, sent, request, room, conn, written,
                      stored>>
      BY <1>6 DEF ReadGet, clientVars
    <2> QED
      BY <2>1, <2>2, <2>3, <2>4, <2>5 DEF TypeOK
  <1>7. CASE Answer(g)
    BY <1>7 DEF TypeOK, Answer, Goes, Tells, clientVars
  <1>8. CASE SendBody(g)
    BY <1>8 DEF TypeOK, SendBody, Goes, Tells, clientVars
  <1>9. CASE LogResponse(g)
    <2>1. log' \in Seq(Event) /\ lost' \subseteq Event
      BY <1>2, <1>9 DEF LogResponse
    <2> QED
      BY <1>9, <2>1 DEF TypeOK, LogResponse, Goes, clientVars
  <1> QED
    BY <1>3, <1>4, <1>5, <1>6, <1>7, <1>8, <1>9 DEF GetSteps

(* And so does the server when it accepts a connection.                    *)
LEMMA TypeAccept ==
  ASSUME TypeOK, NEW c \in Connection, Accept(c)
  PROVE  TypeOK'
  BY DEF TypeOK, Accept, Goes, clientVars

-----------------------------------------------------------------------------
(***************************************************************************)
(* The handshake of an upload.                                             *)
(***************************************************************************)
(* A step of one upload leaves the others alone.                           *)
LEMMA OneUpload ==
  ASSUME Uploads, NEW u \in Upload,
         \A v \in Upload : v # u =>
           /\ client'[v] = client[v] /\ conn'[v] = conn[v] /\ inbox'[v] = inbox[v]
           /\ sent'[v] = sent[v] /\ worker'[v] = worker[v]
           /\ answer'[v] = answer[v] /\ written'[v] = written[v],
         Handshake(client'[u], conn'[u], inbox'[u], sent'[u], worker'[u],
                   answer'[u], written'[u])
  PROVE  Uploads'
  <1>1. ASSUME NEW v \in Upload
        PROVE  Handshake(client'[v], conn'[v], inbox'[v], sent'[v], worker'[v],
                         answer'[v], written'[v])
    <2>1. CASE v = u
      BY <2>1
    <2>2. CASE v # u
      <3>1. Handshake(client[v], conn[v], inbox[v], sent[v], worker[v], answer[v],
                      written[v])
        BY DEF Uploads
      <3> QED
        BY <2>2, <3>1
    <2> QED
      BY <2>1, <2>2
  <1> QED
    BY <1>1 DEF Uploads

(* The client's steps: it sends a chunk only to a worker that has granted  *)
(* the upload.                                                             *)
LEMMA ClientHandshake ==
  ASSUME TypeOK, Uploads, NEW u \in Upload,
         Start(u) \/ ClientSteps(u) \/ Collect(u)
  PROVE  Uploads'
  <1> DEFINE H == Handshake(client[u], conn[u], inbox[u], sent[u], worker[u],
                            answer[u], written[u])
             Hnext == Handshake(client'[u], conn'[u], inbox'[u], sent'[u],
                                worker'[u], answer'[u], written'[u])
             Others == \A v \in Upload : v # u =>
               /\ client'[v] = client[v] /\ conn'[v] = conn[v]
               /\ inbox'[v] = inbox[v] /\ sent'[v] = sent[v]
               /\ worker'[v] = worker[v] /\ answer'[v] = answer[v]
               /\ written'[v] = written[v]
  <1> USE ConstantFacts
  <1>1. H
    BY DEF Uploads
  <1>2. /\ inbox[u] \in Seq(Nat) /\ sent[u] \in Nat /\ written[u] \in Nat
        /\ written[u] <= sent[u]
    BY DEF TypeOK
  <1>3. CASE Start(u)
    <2>1. Others
      BY <1>3 DEF TypeOK, Start
    <2>2. /\ client[u] = "new" /\ client'[u] \in {"over", "connected"}
          /\ conn'[u] = "open" /\ inbox'[u] = inbox[u] /\ sent'[u] = sent[u]
          /\ worker'[u] = worker[u] /\ answer'[u] = answer[u]
          /\ written'[u] = written[u]
      BY <1>3 DEF TypeOK, Start
    <2>3. Hnext
      BY <1>1, <2>2 DEF Handshake
    <2> QED
      BY <2>1, <2>3, OneUpload
  <1>4. CASE Ask(u)
    <2>1. Others
      BY <1>4 DEF TypeOK, Ask, Arrive
    <2>2. /\ client[u] = "connected" /\ client'[u] = "asked"
          /\ inbox'[u] = Append(inbox[u], RequestLine)
          /\ conn'[u] = conn[u] /\ sent'[u] = sent[u]
          /\ worker'[u] = worker[u] /\ answer'[u] = answer[u]
          /\ written'[u] = written[u]
      BY <1>4 DEF TypeOK, Ask, Arrive
    <2>3. inbox[u] = <<>> /\ worker[u] \in {"none", "reading"}
      BY <1>1, <2>2 DEF Handshake
    <2>4. inbox'[u] = <<RequestLine>>
      BY <2>2, <2>3
    <2>5. Hnext
      BY <1>1, <2>2, <2>3, <2>4 DEF Handshake
    <2> QED
      BY <2>1, <2>5, OneUpload
  <1>5. CASE ReadAnswer(u)
    <2>1. Others
      BY <1>5 DEF TypeOK, ReadAnswer
    <2>2. /\ client[u] = "asked" /\ client'[u] \in {"over", "sending"}
          /\ answer[u] # "none" \/ worker[u] \in Over
          /\ inbox'[u] = inbox[u] /\ conn'[u] = conn[u] /\ sent'[u] = sent[u]
          /\ worker'[u] = worker[u] /\ answer'[u] = answer[u]
          /\ written'[u] = written[u]
      BY <1>5 DEF TypeOK, ReadAnswer
    <2>3. worker[u] \notin {"none", "reading"}
      BY <1>1, <2>2 DEF Handshake, Over
    <2>4. Hnext
      BY <1>1, <2>2, <2>3 DEF Handshake
    <2> QED
      BY <2>1, <2>4, OneUpload
  <1>6. CASE SendChunk(u)
    <2>1. Others
      BY <1>6 DEF TypeOK, SendChunk, Arrive
    <2>2. /\ client[u] = "sending" /\ worker[u] \notin Over
          /\ inbox'[u] = Append(inbox[u], sent[u] + 1) /\ sent'[u] = sent[u] + 1
          /\ client'[u] = client[u] /\ conn'[u] = conn[u]
          /\ worker'[u] = worker[u] /\ answer'[u] = answer[u]
          /\ written'[u] = written[u]
      BY <1>6 DEF TypeOK, SendChunk, Arrive
    <2>3. worker[u] \in {"granted", "copying"} /\ Pending(inbox[u], written[u], sent[u])
      BY <1>1, <2>2 DEF Handshake, Over
    <2>4. Pending(inbox'[u], written'[u], sent'[u])
      <3>1. sent[u] + 1 \in Nat
        BY <1>2
      <3>2. /\ Len(inbox'[u]) = Len(inbox[u]) + 1 /\ Len(inbox[u]) \in Nat
            /\ \A k \in 1 .. Len(inbox[u]) : inbox'[u][k] = inbox[u][k]
            /\ inbox'[u][Len(inbox[u]) + 1] = sent[u] + 1
        BY <1>2, <2>2, <3>1, Appended
      <3>3. /\ Len(inbox[u]) = sent[u] - written[u]
            /\ \A k \in 1 .. Len(inbox[u]) : inbox[u][k] = written[u] + k
        BY <2>3 DEF Pending
      <3>4. Len(inbox'[u]) = sent'[u] - written'[u]
        BY <1>2, <2>2, <3>2, <3>3
      <3>5. \A k \in 1 .. Len(inbox'[u]) : inbox'[u][k] = written'[u] + k
        BY <1>2, <2>2, <3>2, <3>3
      <3> QED
        BY <3>4, <3>5 DEF Pending
    <2>5. Hnext
      BY <1>1, <2>2, <2>3, <2>4 DEF Handshake
    <2> QED
      BY <2>1, <2>5, OneUpload
  <1>7. CASE EndUpload(u)
    <2>1. Others
      BY <1>7 DEF TypeOK, EndUpload
    <2>2. /\ client[u] = "sending" /\ client'[u] = "over"
          /\ inbox'[u] = inbox[u] /\ conn'[u] = conn[u] /\ sent'[u] = sent[u]
          /\ worker'[u] = worker[u] /\ answer'[u] = answer[u]
          /\ written'[u] = written[u]
      BY <1>7 DEF TypeOK, EndUpload
    <2>3. Hnext
      BY <1>1, <2>2 DEF Handshake
    <2> QED
      BY <2>1, <2>3, OneUpload
  <1>8. CASE Collect(u)
    <2>1. Others
      BY <1>8 DEF TypeOK, Collect, clientVars
    <2>2. /\ client[u] = "over" /\ client'[u] = "over" /\ conn'[u] = "closed"
          /\ inbox'[u] = inbox[u] /\ sent'[u] = sent[u]
          /\ worker'[u] = worker[u] /\ answer'[u] = answer[u]
          /\ written'[u] = written[u]
      BY <1>8 DEF TypeOK, Collect, clientVars
    <2>3. Hnext
      BY <1>1, <2>2 DEF Handshake
    <2> QED
      BY <2>1, <2>3, OneUpload
  <1> QED
    BY <1>3, <1>4, <1>5, <1>6, <1>7, <1>8 DEF ClientSteps

(* The end of the process: every connection that was open is closed, of    *)
(* threads that are over.                                                  *)
LEMMA EndHandshake ==
  ASSUME TypeOK, Uploads, UserExits \/ ProcessEnds \/ Killed
  PROVE  Uploads'
  <1> USE ConstantFacts
  <1>1. ASSUME NEW u \in Upload
        PROVE  Handshake(client'[u], conn'[u], inbox'[u], sent'[u], worker'[u],
                         answer'[u], written'[u])
    <2>1. Handshake(client[u], conn[u], inbox[u], sent[u], worker[u], answer[u],
                    written[u])
      BY DEF Uploads
    <2>2. /\ inbox'[u] = inbox[u] /\ sent'[u] = sent[u] /\ worker'[u] = worker[u]
          /\ answer'[u] = answer[u] /\ written'[u] = written[u]
      BY DEF UserExits, ProcessEnds, Killed
    <2>3. CASE UserExits
      BY <2>1, <2>2, <2>3 DEF UserExits
    <2>4. CASE ProcessEnds \/ Killed
      <3>1. /\ client'[u] \in {"new", "over"}
            /\ client'[u] = "new" <=> client[u] = "new"
            /\ conn'[u] = IF conn[u] = "open" THEN "closed" ELSE conn[u]
        BY <2>4 DEF TypeOK, ProcessEnds, Killed, ClosedAll
      <3> QED
        BY <2>1, <2>2, <3>1 DEF Handshake
    <2> QED
      BY <2>3, <2>4
  <1> QED
    BY <1>1 DEF Uploads

(* What copying does to the chunks on their way.                           *)
LEMMA ChunkTaken ==
  ASSUME NEW ib \in Seq(Nat), ib # <<>>, NEW wr \in Nat, NEW st \in Nat,
         Pending(ib, wr, st)
  PROVE  /\ Head(ib) = wr + 1 /\ wr + 1 <= st
         /\ Pending(Tail(ib), wr + 1, st)
  <1>1. /\ Tail(ib) \in Seq(Nat) /\ Len(Tail(ib)) = Len(ib) - 1
        /\ Len(ib) \in Nat /\ Len(ib) >= 1 /\ Head(ib) = ib[1]
        /\ \A k \in 1 .. Len(Tail(ib)) : Tail(ib)[k] = ib[k + 1]
    BY Taken
  <1>2. /\ Len(ib) = st - wr
        /\ \A k \in 1 .. Len(ib) : ib[k] = wr + k
    BY DEF Pending
  <1>3. Head(ib) = wr + 1 /\ wr + 1 <= st
    BY <1>1, <1>2
  <1>4. Len(Tail(ib)) = st - (wr + 1)
    BY <1>1, <1>2
  <1>5. ASSUME NEW k \in 1 .. Len(Tail(ib))
        PROVE  Tail(ib)[k] = (wr + 1) + k
    <2>1. k \in Nat /\ k + 1 \in 1 .. Len(ib) /\ Tail(ib)[k] = ib[k + 1]
      BY <1>1, <1>5
    <2>2. ib[k + 1] = wr + (k + 1)
      BY <1>2, <2>1
    <2> QED
      BY <2>1, <2>2
  <1> QED
    BY <1>3, <1>4, <1>5 DEF Pending

(* The worker's steps: only the request line is on its way when it takes   *)
(* that, and nothing when it ends.                                         *)
LEMMA WorkerHandshake ==
  ASSUME TypeOK, Uploads, NEW u \in Upload, UploadSteps(u) \/ Accept(u)
  PROVE  Uploads'
  <1> DEFINE H == Handshake(client[u], conn[u], inbox[u], sent[u], worker[u],
                            answer[u], written[u])
             Hnext == Handshake(client'[u], conn'[u], inbox'[u], sent'[u],
                                worker'[u], answer'[u], written'[u])
             Others == \A v \in Upload : v # u =>
               /\ client'[v] = client[v] /\ conn'[v] = conn[v]
               /\ inbox'[v] = inbox[v] /\ sent'[v] = sent[v]
               /\ worker'[v] = worker[v] /\ answer'[v] = answer[v]
               /\ written'[v] = written[v]
  <1> USE ConstantFacts
  <1>1. H
    BY DEF Uploads
  <1>2. /\ inbox[u] \in Seq(Nat) /\ sent[u] \in Nat /\ written[u] \in Nat
        /\ written[u] <= sent[u]
        /\ client[u] \in {"new", "connected", "asked", "sending", "over"}
    BY DEF TypeOK
  <1>3. CASE NoRequest(u)
    <2>1. Others
      BY <1>3 DEF TypeOK, NoRequest, Goes, Tells, clientVars
    <2>2. /\ worker[u] = "reading" /\ conn[u] = "closed" /\ worker'[u] = "closed"
          /\ client'[u] = client[u] /\ inbox'[u] = inbox[u] /\ sent'[u] = sent[u]
          /\ conn'[u] = conn[u] /\ written'[u] = written[u]
      BY <1>3 DEF TypeOK, NoRequest, Goes, clientVars
    <2>3. Hnext
      BY <1>1, <1>2, <2>2 DEF Handshake
    <2> QED
      BY <2>1, <2>3, OneUpload
  <1>4. CASE ReadUpload(u)
    <2>1. inbox[u] # <<>> /\ worker[u] = "reading"
      BY <1>4 DEF ReadUpload, TakeLine
    <2>2. inbox[u] = <<RequestLine>> /\ sent[u] = 0 /\ written[u] = 0
      BY <1>1, <2>1 DEF Handshake
    <2>3. inbox'[u] = <<>> /\ \A v \in Upload : v # u => inbox'[v] = inbox[v]
      BY <1>4, <2>2, LineTaken DEF ReadUpload
    <2>4. Others
      BY <1>4, <2>3 DEF TypeOK, ReadUpload, Goes, Tells, clientVars
    <2>5. /\ worker'[u] = "closed" \/ (worker'[u] = "granted" /\ answer'[u] = "OK")
          /\ client'[u] = client[u] /\ sent'[u] = sent[u]
          /\ conn'[u] = conn[u] /\ written'[u] = written[u]
      BY <1>4 DEF TypeOK, ReadUpload, Goes, Tells, clientVars
    <2>6. client[u] \notin {"new", "connected"}
      BY <1>1, <2>2 DEF Handshake
    <2>7. Pending(<<>>, 0, 0)
      BY DEF Pending
    <2>8. Hnext
      BY <1>1, <2>2, <2>3, <2>5, <2>6, <2>7 DEF Handshake
    <2> QED
      BY <2>4, <2>8, OneUpload
  <1>5. CASE OpenFile(u)
    <2>1. Others
      BY <1>5 DEF TypeOK, OpenFile, Goes, clientVars
    <2>2. /\ worker[u] = "granted" /\ worker'[u] \in {"copying", "closed"}
          /\ client'[u] = client[u] /\ inbox'[u] = inbox[u] /\ sent'[u] = sent[u]
          /\ conn'[u] = conn[u] /\ written'[u] = written[u]
          /\ answer'[u] = answer[u]
      BY <1>5 DEF TypeOK, OpenFile, Goes, clientVars
    <2>3. Hnext
      BY <1>1, <2>2 DEF Handshake
    <2> QED
      BY <2>1, <2>3, OneUpload
  <1>6. CASE CopyChunk(u)
    <2>1. Others
      BY <1>6 DEF TypeOK, CopyChunk, clientVars
    <2>2. /\ worker[u] = "copying" /\ inbox[u] # <<>>
          /\ inbox'[u] = Tail(inbox[u]) /\ written'[u] = written[u] + 1
          /\ client'[u] = client[u] /\ sent'[u] = sent[u]
          /\ conn'[u] = conn[u] /\ answer'[u] = answer[u]
          /\ worker'[u] = worker[u]
      BY <1>6 DEF TypeOK, CopyChunk, clientVars
    <2>3. Pending(inbox[u], written[u], sent[u])
      BY <1>1, <2>2 DEF Handshake
    <2>4. Pending(inbox'[u], written'[u], sent'[u])
      BY <1>2, <2>2, <2>3, ChunkTaken
    <2>5. Hnext
      BY <1>1, <2>2, <2>4 DEF Handshake
    <2> QED
      BY <2>1, <2>5, OneUpload
  <1>7. CASE EndCopy(u)
    <2>1. Others
      BY <1>7 DEF TypeOK, EndCopy, Goes, clientVars
    <2>2. /\ worker[u] = "copying" /\ inbox[u] = <<>> /\ conn[u] = "closed"
          /\ worker'[u] = "stored"
          /\ client'[u] = client[u] /\ inbox'[u] = inbox[u] /\ sent'[u] = sent[u]
          /\ conn'[u] = conn[u] /\ written'[u] = written[u]
          /\ answer'[u] = answer[u]
      BY <1>7 DEF TypeOK, EndCopy, Goes, clientVars
    <2>3. Pending(inbox[u], written[u], sent[u])
      BY <1>1, <2>2 DEF Handshake
    <2>4. written[u] = sent[u]
      BY <1>2, <2>2, <2>3 DEF Pending
    <2>5. Hnext
      BY <1>1, <2>2, <2>4 DEF Handshake
    <2> QED
      BY <2>1, <2>5, OneUpload
  <1>8. CASE Disconnected(u)
    <2>1. Others
      BY <1>8 DEF TypeOK, Disconnected, Goes, clientVars
    <2>2. /\ worker[u] = "copying" /\ worker'[u] = "closed"
          /\ client'[u] = client[u] /\ inbox'[u] = inbox[u] /\ sent'[u] = sent[u]
          /\ conn'[u] = conn[u] /\ written'[u] = written[u]
          /\ answer'[u] = answer[u]
      BY <1>8 DEF TypeOK, Disconnected, Goes, clientVars
    <2>3. Hnext
      BY <1>1, <2>2 DEF Handshake
    <2> QED
      BY <2>1, <2>3, OneUpload
  <1>9. CASE Accept(u)
    <2>1. Others
      BY <1>9 DEF TypeOK, Accept, Goes, clientVars
    <2>2. /\ conn[u] \in {"open", "closed"} /\ worker[u] = "none"
          /\ worker'[u] = "reading"
          /\ client'[u] = client[u] /\ inbox'[u] = inbox[u] /\ sent'[u] = sent[u]
          /\ conn'[u] = conn[u] /\ written'[u] = written[u]
          /\ answer'[u] = answer[u]
      BY <1>9 DEF TypeOK, Accept, Goes, clientVars
    <2>3. Hnext
      BY <1>1, <2>2 DEF Handshake
    <2> QED
      BY <2>1, <2>3, OneUpload
  <1> QED
    BY <1>3, <1>4, <1>5, <1>6, <1>7, <1>8, <1>9 DEF UploadSteps

(* Browsers have connections of their own.                                 *)
LEMMA GetHandshake ==
  ASSUME TypeOK, Uploads, NEW g \in Get,
         BrowserAsks(g) \/ BrowserReads(g) \/ BrowserLeaves(g) \/ GetSteps(g) \/ Accept(g)
  PROVE  Uploads'
  <1> USE ConstantFacts
  <1> DEFINE Alone(v) ==
        /\ client'[v] = client[v] /\ conn'[v] = conn[v] /\ inbox'[v] = inbox[v]
        /\ sent'[v] = sent[v] /\ worker'[v] = worker[v]
        /\ answer'[v] = answer[v] /\ written'[v] = written[v]
  <1>1. ASSUME NEW v \in Upload
        PROVE  Alone(v)
    <2>1. v # g /\ v \in Connection
      OBVIOUS
    <2>2. CASE BrowserAsks(g)
      BY <2>1, <2>2 DEF BrowserAsks, Arrive, TypeOK, clientVars
    <2>3. CASE BrowserReads(g) \/ BrowserLeaves(g)
      BY <2>1, <2>3 DEF BrowserReads, BrowserLeaves, TypeOK, clientVars
    <2>4. CASE NoRequest(g)
      BY <2>1, <2>4 DEF NoRequest, Goes, Tells, TypeOK, clientVars
    <2>5. CASE ReadGet(g)
      <3>1. inbox'[v] = inbox[v]
        BY <2>1, <2>5, LineTaken DEF ReadGet
      <3>2. worker'[v] = worker[v]
        BY <2>1, <2>5 DEF ReadGet, Goes, TypeOK
      <3>3. answer'[v] = answer[v]
        BY <2>1, <2>5 DEF ReadGet, Tells, TypeOK
      <3> QED
        BY <2>5, <3>1, <3>2, <3>3 DEF ReadGet, clientVars
    <2>6. CASE Answer(g)
      BY <2>1, <2>6 DEF Answer, Goes, Tells, TypeOK, clientVars
    <2>7. CASE SendBody(g)
      BY <2>1, <2>7 DEF SendBody, Goes, Tells, TypeOK, clientVars
    <2>8. CASE LogResponse(g)
      BY <2>1, <2>8 DEF LogResponse, Goes, TypeOK, clientVars
    <2>9. CASE Accept(g)
      BY <2>1, <2>9 DEF Accept, Goes, TypeOK, clientVars
    <2> QED
      BY <2>2, <2>3, <2>4, <2>5, <2>6, <2>7, <2>8, <2>9 DEF GetSteps
  <1> QED
    BY <1>1 DEF Uploads

-----------------------------------------------------------------------------
(***************************************************************************)
(* The uploaded files.                                                     *)
(***************************************************************************)
(* Nobody stops being a writer of a file.                                  *)
WritersStay ==
  \A v \in Upload :
    worker[v] \in {"copying", "stored", "closed"} /\ answer[v] = "OK" =>
      worker'[v] \in {"copying", "stored", "closed"} /\ answer'[v] = "OK"

(* Who is alone with a file now was alone with it before.                  *)
LEMMA AloneBefore ==
  ASSUME Uploads, WritersStay, fileName' = fileName,
         NEW v \in Upload, worker[v] \in {"copying", "stored"},
         Writers(fileName[v])' = {v}
  PROVE  Writers(fileName[v]) = {v}
  <1>1. answer[v] = "OK"
    BY DEF Uploads, Handshake
  <1>2. v \in Writers(fileName[v])
    BY <1>1 DEF Writers
  <1>3. Writers(fileName[v]) \subseteq Writers(fileName[v])'
    BY DEF Writers, WritersStay
  <1> QED
    BY <1>2, <1>3

(* A step that writes no file leaves them as they should be.               *)
LEMMA FilesStay ==
  ASSUME Uploads, WholeSoFar, ChunksInPlace, WritersStay,
         fileName' = fileName, stored' = stored,
         \A v \in Upload : worker'[v] \in {"copying", "stored"} =>
           worker[v] \in {"copying", "stored"} /\ written'[v] = written[v]
  PROVE  WholeSoFar' /\ ChunksInPlace'
  <1>1. ASSUME NEW v \in Upload, worker'[v] \in {"copying", "stored"},
               Writers(fileName[v])' = {v}
        PROVE  stored'[fileName'[v]] = [k \in 1 .. written'[v] |-> <<v, k>>]
    <2>1. worker[v] \in {"copying", "stored"} /\ written'[v] = written[v]
      BY <1>1
    <2>2. Writers(fileName[v]) = {v}
      BY <1>1, <2>1, AloneBefore
    <2>3. stored[fileName[v]] = [k \in 1 .. written[v] |-> <<v, k>>]
      BY <2>1, <2>2 DEF WholeSoFar
    <2> QED
      BY <2>1, <2>3
  <1>2. WholeSoFar'
    BY <1>1 DEF WholeSoFar
  <1>3. ChunksInPlace'
    BY DEF ChunksInPlace
  <1> QED
    BY <1>2, <1>3

(* The client, browsers and their workers write no file.                   *)
LEMMA ClientFiles ==
  ASSUME Uploads, WholeSoFar, ChunksInPlace,
         \/ \E u \in Upload : Start(u) \/ ClientSteps(u) \/ Collect(u)
         \/ UserExits \/ ProcessEnds \/ Killed
  PROVE  WholeSoFar' /\ ChunksInPlace'
  <1>1. UNCHANGED <<worker, answer, written, stored, fileName>>
    BY DEF Start, ClientSteps, Ask, ReadAnswer, SendChunk, EndUpload, Collect,
           UserExits, ProcessEnds, Killed, clientVars
  <1>2. WritersStay
    BY <1>1 DEF WritersStay
  <1> QED
    BY <1>1, <1>2, FilesStay

(* Browsers and their workers leave the uploaded files alone.              *)
LEMMA GetFiles ==
  ASSUME TypeOK, Uploads, WholeSoFar, ChunksInPlace, NEW g \in Get,
         BrowserAsks(g) \/ BrowserReads(g) \/ BrowserLeaves(g) \/ GetSteps(g)
  PROVE  WholeSoFar' /\ ChunksInPlace'
  <1> USE ConstantFacts
  <1>1. UNCHANGED <<written, stored, fileName>>
    BY DEF BrowserAsks, BrowserReads, BrowserLeaves, GetSteps, NoRequest, ReadGet, Answer,
           SendBody, LogResponse, clientVars
  <1>2. \A v \in Upload : worker'[v] = worker[v] /\ answer'[v] = answer[v]
    <2>1. SUFFICES ASSUME NEW v \in Upload
                   PROVE  worker'[v] = worker[v] /\ answer'[v] = answer[v]
      OBVIOUS
    <2>2. v # g
      OBVIOUS
    <2>3. CASE BrowserAsks(g) \/ BrowserReads(g) \/ BrowserLeaves(g)
      BY <2>3 DEF BrowserAsks, BrowserReads, BrowserLeaves
    <2>4. CASE GetSteps(g)
      BY <2>2, <2>4 DEF GetSteps, NoRequest, ReadGet, Answer, SendBody,
                        LogResponse, Goes, Tells, TypeOK
    <2> QED
      BY <2>3, <2>4
  <1>3. WritersStay
    BY <1>2 DEF WritersStay
  <1> QED
    BY <1>1, <1>2, <1>3, FilesStay

(* So does accepting a connection.                                         *)
LEMMA AcceptFiles ==
  ASSUME TypeOK, Uploads, WholeSoFar, ChunksInPlace, NEW c \in Connection, Accept(c)
  PROVE  WholeSoFar' /\ ChunksInPlace'
  <1>1. /\ UNCHANGED <<written, stored, fileName, answer>>
        /\ worker[c] = "none" /\ worker' = [worker EXCEPT ![c] = "reading"]
    BY DEF Accept, Goes, clientVars
  <1>2. \A v \in Upload : worker'[v] = worker[v] \/ (worker[v] = "none" /\ worker'[v] = "reading")
    BY <1>1 DEF TypeOK
  <1>3. WritersStay
    BY <1>1, <1>2 DEF WritersStay
  <1> QED
    BY <1>1, <1>2, <1>3, FilesStay

(* An upload's worker empties its file when it opens it and then writes    *)
(* the chunks where they belong.                                           *)
LEMMA UploadFiles ==
  ASSUME TypeOK, Uploads, WholeSoFar, ChunksInPlace, NEW u \in Upload,
         UploadSteps(u)
  PROVE  WholeSoFar' /\ ChunksInPlace'
  <1> USE ConstantFacts
  <1> DEFINE f == fileName[u]
  <1>1. /\ fileName' = fileName /\ f \in Name
        /\ Handshake(client[u], conn[u], inbox[u], sent[u], worker[u], answer[u],
                     written[u])
    BY DEF UploadSteps, NoRequest, ReadUpload, OpenFile, CopyChunk, EndCopy,
           Disconnected, clientVars, TypeOK, Uploads
  <1>2. CASE NoRequest(u) \/ ReadUpload(u)
    <2>1. /\ UNCHANGED <<stored, written>> /\ worker[u] = "reading"
          /\ worker'[u] \in {"closed", "granted"}
          /\ \A v \in Upload : v # u => worker'[v] = worker[v] /\ answer'[v] = answer[v]
      BY <1>2 DEF NoRequest, ReadUpload, Goes, Tells, TypeOK
    <2>2. WritersStay
      BY <2>1 DEF WritersStay
    <2>3. \A v \in Upload : worker'[v] \in {"copying", "stored"} =>
            worker[v] \in {"copying", "stored"} /\ written'[v] = written[v]
      BY <2>1
    <2> QED
      BY <1>1, <2>1, <2>2, <2>3, FilesStay
  <1>3. CASE EndCopy(u) \/ Disconnected(u) \/ (OpenFile(u) /\ f \in Unwritable)
    <2>1. /\ UNCHANGED <<stored, written, answer>>
          /\ worker[u] \in {"copying", "granted"}
          /\ worker'[u] = "closed" \/ (worker'[u] = "stored" /\ worker[u] = "copying")
          /\ \A v \in Upload : v # u => worker'[v] = worker[v]
      BY <1>3 DEF EndCopy, Disconnected, OpenFile, Goes, TypeOK
    <2>2. WritersStay
      BY <2>1 DEF WritersStay
    <2>3. \A v \in Upload : worker'[v] \in {"copying", "stored"} =>
            worker[v] \in {"copying", "stored"} /\ written'[v] = written[v]
      BY <2>1
    <2> QED
      BY <1>1, <2>1, <2>2, <2>3, FilesStay
  <1>4. CASE OpenFile(u) /\ f \notin Unwritable
    <2>1. /\ worker[u] = "granted" /\ worker'[u] = "copying"
          /\ UNCHANGED <<written, answer>>
          /\ stored' = [stored EXCEPT ![f] = <<>>]
          /\ \A v \in Upload : v # u => worker'[v] = worker[v]
      BY <1>4 DEF OpenFile, Goes, TypeOK
    <2>2. /\ stored'[f] = <<>>
          /\ \A n \in Name : n # f => stored'[n] = stored[n]
      BY <1>1, <2>1 DEF TypeOK
    <2>3. answer[u] = "OK" /\ written[u] = 0
      BY <1>1, <2>1 DEF Handshake
    <2>4. WritersStay
      BY <2>1 DEF WritersStay
    <2>5. u \in Writers(f)'
      BY <1>1, <2>1, <2>3 DEF Writers
    <2>6. ASSUME NEW v \in Upload, worker'[v] \in {"copying", "stored"},
                 Writers(fileName[v])' = {v}
          PROVE  stored'[fileName'[v]] = [k \in 1 .. written'[v] |-> <<v, k>>]
      <3>1. CASE v = u
        <4>1. [k \in 1 .. 0 |-> <<u, k>>] = <<>>
          OBVIOUS
        <4> QED
          BY <1>1, <2>1, <2>2, <2>3, <3>1, <4>1
      <3>2. CASE v # u
        <4>1. fileName[v] # f /\ fileName[v] \in Name
          BY <1>1, <2>5, <2>6, <3>2 DEF TypeOK
        <4>2. worker[v] \in {"copying", "stored"}
          BY <2>1, <2>6, <3>2
        <4>3. Writers(fileName[v]) = {v}
          BY <1>1, <2>4, <2>6, <4>2, AloneBefore
        <4>4. stored[fileName[v]] = [k \in 1 .. written[v] |-> <<v, k>>]
          BY <4>2, <4>3 DEF WholeSoFar
        <4> QED
          BY <1>1, <2>1, <2>2, <4>1, <4>4
      <3> QED
        BY <3>1, <3>2
    <2>7. WholeSoFar'
      BY <2>6 DEF WholeSoFar
    <2>8. ChunksInPlace'
      <3>1. DOMAIN (<<>>) = {}
        OBVIOUS
      <3> QED
        BY <1>1, <2>2, <3>1 DEF ChunksInPlace
    <2> QED
      BY <2>7, <2>8
  <1>5. CASE CopyChunk(u)
    <2> DEFINE wr == written[u]
               x == <<u, wr + 1>>
    <2>1. /\ worker[u] = "copying" /\ inbox[u] # <<>>
          /\ UNCHANGED <<worker, answer>>
          /\ stored' = [stored EXCEPT
                          ![f] = WriteAt(stored[f], wr + 1, <<u, Head(inbox[u])>>)]
          /\ written' = [written EXCEPT ![u] = wr + 1]
      BY <1>5 DEF CopyChunk
    <2>2. /\ inbox[u] \in Seq(Nat) /\ wr \in Nat /\ sent[u] \in Nat
          /\ stored[f] \in Seq(Chunk \cup {Hole})
      BY <1>1 DEF TypeOK
    <2>3. Head(inbox[u]) = wr + 1
      BY <1>1, <2>1, <2>2, ChunkTaken DEF Handshake
    <2>4. /\ stored'[f] = WriteAt(stored[f], wr + 1, x)
          /\ \A n \in Name : n # f => stored'[n] = stored[n]
          /\ written'[u] = wr + 1
          /\ \A v \in Upload : v # u => written'[v] = written[v]
      BY <1>1, <2>1, <2>3 DEF TypeOK
    <2>5. wr + 1 \in Nat /\ wr + 1 >= 1 /\ x \in Chunk \cup {Hole}
      BY <2>2 DEF Chunk
    <2>6. Hole \in Chunk \cup {Hole}
      OBVIOUS
    <2>7. WritersStay
      BY <2>1 DEF WritersStay
    <2>8. u \in Writers(f)'
      BY <1>1, <2>1 DEF Writers, Handshake
    <2>9. /\ \A k \in DOMAIN stored'[f] :
               \/ k = wr + 1 /\ stored'[f][k] = x
               \/ /\ k # wr + 1 /\ k \in DOMAIN stored[f]
                  /\ stored'[f][k] = stored[f][k]
               \/ stored'[f][k] = Hole
          /\ Len(stored[f]) = (wr + 1) - 1 =>
               /\ DOMAIN stored'[f] = 1 .. wr + 1
               /\ stored'[f][wr + 1] = x
               /\ \A k \in 1 .. (wr + 1) - 1 : stored'[f][k] = stored[f][k]
          /\ stored'[f] \in Seq(Chunk \cup {Hole})
      <3> DEFINE S == Chunk \cup {Hole}
                 cells == stored[f]
                 at == wr + 1
      <3>1. stored'[f] = WriteAt(cells, at, x)
        BY <2>4
      <3>2. at \in Nat /\ at >= 1 /\ x \in S /\ Hole \in S /\ cells \in Seq(S)
        BY <2>2, <2>5, <2>6
      <3> HIDE DEF S, cells, at, x
      <3>3. /\ WriteAt(cells, at, x) \in Seq(S)
            /\ \A k \in DOMAIN WriteAt(cells, at, x) :
                 \/ k = at /\ WriteAt(cells, at, x)[k] = x
                 \/ /\ k # at /\ k \in DOMAIN cells
                    /\ WriteAt(cells, at, x)[k] = cells[k]
                 \/ WriteAt(cells, at, x)[k] = Hole
            /\ Len(cells) = at - 1 =>
                 /\ DOMAIN WriteAt(cells, at, x) = 1 .. at
                 /\ WriteAt(cells, at, x)[at] = x
                 /\ \A k \in 1 .. at - 1 : WriteAt(cells, at, x)[k] = cells[k]
        BY ONLY <3>2, WrittenAt
      <3> QED
        BY ONLY <3>1, <3>3 DEF S, cells, at
    <2>10. ASSUME NEW v \in Upload, worker'[v] \in {"copying", "stored"},
                  Writers(fileName[v])' = {v}
           PROVE  stored'[fileName'[v]] = [k \in 1 .. written'[v] |-> <<v, k>>]
      <3>1. worker[v] \in {"copying", "stored"}
        BY <2>1, <2>10
      <3>2. Writers(fileName[v]) = {v}
        BY <1>1, <2>7, <2>10, <3>1, AloneBefore
      <3>3. stored[fileName[v]] = [k \in 1 .. written[v] |-> <<v, k>>]
        BY <3>1, <3>2 DEF WholeSoFar
      <3>4. CASE v = u
        <4>1. stored[f] = [k \in 1 .. wr |-> <<u, k>>]
          BY <3>3, <3>4
        <4>2. Len(stored[f]) = (wr + 1) - 1
          BY <2>2, <4>1
        <4>3. /\ DOMAIN stored'[f] = 1 .. wr + 1
              /\ stored'[f][wr + 1] = <<u, wr + 1>>
              /\ \A k \in 1 .. (wr + 1) - 1 : stored'[f][k] = stored[f][k]
          BY <2>9, <4>2
        <4>4. \A k \in 1 .. wr + 1 : stored'[f][k] = <<u, k>>
          <5>1. \A k \in 1 .. wr : stored'[f][k] = <<u, k>>
            <6>1. \A k \in 1 .. wr : stored[f][k] = <<u, k>>
              BY <4>1
            <6>2. (wr + 1) - 1 = wr
              BY <2>2
            <6> QED
              BY <4>3, <6>1, <6>2
          <5>2. \A k \in 1 .. wr + 1 : k = wr + 1 \/ k \in 1 .. wr
            BY <2>2
          <5> QED
            BY <4>3, <5>1, <5>2
        <4>5. stored'[f] = [k \in DOMAIN stored'[f] |-> stored'[f][k]]
          BY <2>9
        <4>6. stored'[f] = [k \in 1 .. wr + 1 |-> <<u, k>>]
          BY ONLY <4>3, <4>4, <4>5
        <4> QED
          BY <1>1, <2>4, <3>4, <4>6
      <3>5. CASE v # u
        <4>1. fileName[v] # f /\ fileName[v] \in Name
          BY <1>1, <2>8, <2>10, <3>5 DEF TypeOK
        <4> QED
          BY <1>1, <2>4, <3>3, <3>5, <4>1
      <3> QED
        BY <3>4, <3>5
    <2>11. WholeSoFar'
      BY <2>10 DEF WholeSoFar
    <2>12. ChunksInPlace'
      <3>1. SUFFICES ASSUME NEW n \in Name, NEW k \in DOMAIN stored'[n],
                            stored'[n][k] # Hole
                     PROVE  /\ stored'[n][k][2] = k
                            /\ fileName'[stored'[n][k][1]] = n
        BY DEF ChunksInPlace
      <3>2. CASE n # f
        BY <1>1, <2>4, <3>1, <3>2 DEF ChunksInPlace
      <3>3. CASE n = f
        <4>1. \/ k = wr + 1 /\ stored'[f][k] = x
              \/ k \in DOMAIN stored[f] /\ stored'[f][k] = stored[f][k]
          BY <2>9, <3>1, <3>3
        <4> QED
          BY <1>1, <3>1, <3>3, <4>1 DEF ChunksInPlace
      <3> QED
        BY <3>2, <3>3
    <2> QED
      BY <2>11, <2>12
  <1> QED
    BY <1>2, <1>3, <1>4, <1>5 DEF UploadSteps

-----------------------------------------------------------------------------
(***************************************************************************)
(* The log.                                                                *)
(***************************************************************************)
Entry == {"request", "response"} \X Get

(* What is logged stays where it is in the log.                            *)
LEMMA LogGrows ==
  ASSUME NEW l \in Seq(Entry), NEW x \in Entry
  PROVE  /\ \A k \in DOMAIN l : k \in DOMAIN Append(l, x) /\ Append(l, x)[k] = l[k]
         /\ \A k \in DOMAIN Append(l, x) :
              k \in DOMAIN l \/ (k = Len(l) + 1 /\ Append(l, x)[k] = x)
         /\ \A k \in DOMAIN l : k < Len(l) + 1
         /\ Len(l) + 1 \in DOMAIN Append(l, x) /\ Append(l, x)[Len(l) + 1] = x
  BY Appended

(* An entry that belongs in its place keeps the order.                     *)
LEMMA AppendedInOrder ==
  ASSUME NEW l \in Seq(Entry), NEW x \in Entry, NEW g, Ordered(l, g),
         x = <<"request", g>> => ~Logged(l, "request", g) /\ ~Logged(l, "response", g),
         x = <<"response", g>> => ~Logged(l, "response", g)
  PROVE  Ordered(Append(l, x), g)
  <1> DEFINE m == Append(l, x)
  <1>1. /\ \A k \in DOMAIN l : k \in DOMAIN m /\ m[k] = l[k]
        /\ \A k \in DOMAIN m : k \in DOMAIN l \/ (k = Len(l) + 1 /\ m[k] = x)
        /\ \A k \in DOMAIN l : k < Len(l) + 1
    BY LogGrows
  <1> HIDE DEF m
  <1>2. ASSUME NEW kind \in {"request", "response"}, NEW j \in DOMAIN m,
               NEW k \in DOMAIN m, m[j] = <<kind, g>>, m[k] = <<kind, g>>
        PROVE  j = k
    <2>1. CASE x = <<kind, g>>
      <3>1. ~Logged(l, kind, g)
        BY <2>1
      <3>2. j \notin DOMAIN l /\ k \notin DOMAIN l
        BY <1>1, <1>2, <3>1 DEF Logged
      <3> QED
        BY <1>1, <3>2
    <2>2. CASE x # <<kind, g>>
      <3>1. j \in DOMAIN l /\ k \in DOMAIN l /\ l[j] = <<kind, g>> /\ l[k] = <<kind, g>>
        BY <1>1, <1>2, <2>2
      <3> QED
        BY <3>1 DEF Ordered
    <2> QED
      BY <2>1, <2>2
  <1>3. ASSUME NEW j \in DOMAIN m, NEW k \in DOMAIN m,
               m[j] = <<"request", g>>, m[k] = <<"response", g>>
        PROVE  j < k
    <2>1. CASE k \in DOMAIN l
      <3>1. l[k] = <<"response", g>>
        BY <1>1, <1>3, <2>1
      <3>2. x # <<"request", g>>
        BY <2>1, <3>1 DEF Logged
      <3>3. j \in DOMAIN l /\ l[j] = <<"request", g>>
        BY <1>1, <1>3, <3>2
      <3> QED
        BY <2>1, <3>1, <3>3 DEF Ordered
    <2>2. CASE k \notin DOMAIN l
      <3>1. k = Len(l) + 1 /\ x = <<"response", g>>
        BY <1>1, <1>3, <2>2
      <3>2. x # <<"request", g>>
        BY <3>1
      <3>3. j \in DOMAIN l
        BY <1>1, <1>3, <3>2
      <3> QED
        BY <1>1, <3>1, <3>3
    <2> QED
      BY <2>1, <2>2
  <1>4. Ordered(m, g)
    BY <1>2, <1>3 DEF Ordered
  <1> QED
    BY <1>4 DEF m

(* One more entry is in the log, or among those it did not take.           *)
LEMMA LoggedOrLost ==
  ASSUME TypeOK, NEW kind \in {"request", "response"}, NEW g \in Get, Logs(kind, g)
  PROVE  /\ Told(log', lost', kind, g)
         /\ \A what, h : /\ Logged(log, what, h) => Logged(log', what, h)
                         /\ Told(log, lost, what, h) => Told(log', lost', what, h)
                         /\ <<what, h>> # <<kind, g>> =>
                              /\ Logged(log', what, h) => Logged(log, what, h)
                              /\ Told(log', lost', what, h) => Told(log, lost, what, h)
         /\ \A h \in Get : h # g /\ Ordered(log, h) => Ordered(log', h)
         /\ /\ Ordered(log, g)
            /\ ~Logged(log, kind, g) /\ ~Logged(log, "response", g)
            => Ordered(log', g)
  <1> DEFINE x == <<kind, g>>
  <1>1. x \in Entry /\ log \in Seq(Entry)
    BY DEF TypeOK, Entry
  <1>2. CASE log' = Append(log, x) /\ UNCHANGED lost
    <2>1. /\ \A k \in DOMAIN log : k \in DOMAIN log' /\ log'[k] = log[k]
          /\ \A k \in DOMAIN log' : k \in DOMAIN log \/ log'[k] = x
          /\ \E k \in DOMAIN log' : log'[k] = x
      <3> HIDE DEF x
      <3> QED
        BY <1>1, <1>2, LogGrows
    <2>2. \A what, h : /\ Logged(log, what, h) => Logged(log', what, h)
                       /\ <<what, h>> # x =>
                            (Logged(log', what, h) => Logged(log, what, h))
      <3> HIDE DEF x
      <3> QED
        BY <2>1 DEF Logged
    <2>3. Logged(log', kind, g)
      BY <2>1 DEF Logged
    <2>4. ASSUME NEW h \in Get, h # g, Ordered(log, h)
          PROVE  Ordered(log', h)
      <3>1. x # <<"request", h>> /\ x # <<"response", h>>
        BY <2>4
      <3> HIDE DEF x
      <3> QED
        BY <1>1, <1>2, <2>4, <3>1, AppendedInOrder
    <2>5. ASSUME Ordered(log, g), ~Logged(log, kind, g), ~Logged(log, "response", g)
          PROVE  Ordered(log', g)
      <3>1. x = <<"request", g>> => kind = "request"
        OBVIOUS
      <3> HIDE DEF x
      <3> QED
        BY <1>1, <1>2, <2>5, <3>1, AppendedInOrder
    <2> QED
      BY <1>2, <2>2, <2>3, <2>4, <2>5 DEF Told
  <1>3. CASE lost' = lost \cup {x} /\ UNCHANGED log
    BY <1>3 DEF Told
  <1> QED
    BY <1>2, <1>3 DEF Logs

(* A step of one browser or its worker leaves the others alone.            *)
LEMMA OneGet ==
  ASSUME TypeOK, Gets, NEW g \in Get, request' = request,
         \A h \in Get : h # g => worker'[h] = worker[h] /\ answer'[h] = answer[h],
         \/ UNCHANGED <<log, lost>>
         \/ \E kind \in {"request", "response"} : Logs(kind, g),
         Served(g, request[g], worker'[g], answer'[g], log', lost')
  PROVE  Gets'
  <1>1. ASSUME NEW h \in Get, h # g
        PROVE  Served(h, request[h], worker'[h], answer'[h], log', lost')
    <2>1. Served(h, request[h], worker'[h], answer'[h], log, lost)
      BY <1>1 DEF Gets
    <2>2. ASSUME NEW kind \in {"request", "response"}, Logs(kind, g)
          PROVE  Served(h, request[h], worker'[h], answer'[h], log', lost')
      <3>1. \A what : <<what, h>> # <<kind, g>>
        BY <1>1
      <3>2. /\ \A what : /\ Logged(log', what, h) <=> Logged(log, what, h)
                         /\ Told(log', lost', what, h) <=> Told(log, lost, what, h)
            /\ Ordered(log, h) => Ordered(log', h)
        BY <1>1, <2>2, <3>1, LoggedOrLost
      <3> QED
        BY <2>1, <3>2 DEF Served
    <2> QED
      BY <2>1, <2>2
  <1> QED
    BY <1>1 DEF Gets

(* A browser's worker logs the request first and the response last, or     *)
(* tries to.                                                               *)
LEMMA GetServed ==
  ASSUME TypeOK, Gets, NEW g \in Get,
         BrowserAsks(g) \/ BrowserReads(g) \/ BrowserLeaves(g) \/ GetSteps(g)
           \/ Accept(g)
  PROVE  Gets'
  <1> USE ConstantFacts
  <1> DEFINE Others == \A h \in Get : h # g =>
               worker'[h] = worker[h] /\ answer'[h] = answer[h]
             Mine == Served(g, request[g], worker'[g], answer'[g], log', lost')
  <1>1. Served(g, request[g], worker[g], answer[g], log, lost)
    BY DEF Gets
  <1>2. request' = request
    BY DEF BrowserAsks, BrowserReads, BrowserLeaves, GetSteps, NoRequest, ReadGet,
           Answer, SendBody, LogResponse, Accept, clientVars
  <1>3. CASE BrowserAsks(g) \/ BrowserReads(g) \/ BrowserLeaves(g)
    <2>1. UNCHANGED <<worker, answer, log, lost>>
      BY <1>3 DEF BrowserAsks, BrowserReads, BrowserLeaves
    <2> QED
      BY <1>2, <2>1 DEF Gets
  <1>4. CASE Accept(g)
    <2>1. /\ worker[g] = "none" /\ worker'[g] = "reading" /\ UNCHANGED <<log, lost>>
          /\ answer'[g] = answer[g] /\ Others
      BY <1>4 DEF Accept, Goes, TypeOK
    <2>2. Mine
      BY <1>1, <2>1 DEF Served
    <2> QED
      BY <1>2, <2>1, <2>2, OneGet
  <1>5. CASE NoRequest(g)
    <2>1. /\ worker[g] = "reading" /\ worker'[g] = "closed" /\ answer'[g] = "400"
          /\ UNCHANGED <<log, lost>> /\ Others
      BY <1>5 DEF NoRequest, Goes, Tells, TypeOK
    <2>2. Mine
      BY <1>1, <2>1 DEF Served
    <2> QED
      BY <1>2, <2>1, <2>2, OneGet
  <1>6. CASE ReadGet(g)
    <2>1. /\ worker[g] = "reading"
          /\ \/ /\ worker'[g] = "closed" /\ answer'[g] = "400"
                /\ UNCHANGED <<log, lost>>
             \/ /\ worker'[g] \in {"closed", "serving"} /\ answer'[g] = answer[g]
                /\ Logs("request", g)
          /\ Others
      BY <1>6 DEF ReadGet, Goes, Tells, TypeOK
    <2>2. /\ answer[g] = "none" /\ Ordered(log, g)
          /\ ~Logged(log, "request", g) /\ ~Logged(log, "response", g)
      BY <1>1, <2>1 DEF Served
    <2>3. CASE worker'[g] = "closed" /\ answer'[g] = "400" /\ UNCHANGED <<log, lost>>
      <3>1. Mine
        BY <2>2, <2>3 DEF Served
      <3> QED
        BY <1>2, <2>1, <2>3, <3>1, OneGet
    <2>4. CASE /\ worker'[g] \in {"closed", "serving"} /\ answer'[g] = answer[g]
               /\ Logs("request", g)
      <3>1. /\ Told(log', lost', "request", g) /\ Ordered(log', g)
            /\ ~Logged(log', "response", g)
        <4>1. <<"response", g>> # <<"request", g>>
          OBVIOUS
        <4> QED
          BY <2>2, <2>4, <4>1, LoggedOrLost
      <3>2. Mine
        BY <2>2, <2>4, <3>1 DEF Served
      <3> QED
        BY <1>2, <2>1, <2>4, <3>2, OneGet
    <2> QED
      BY <2>1, <2>3, <2>4
  <1>7. CASE Answer(g)
    <2>1. /\ worker[g] = "serving" /\ UNCHANGED <<log, lost>> /\ Others
          /\ \/ /\ request[g] \in Listing /\ worker'[g] = "served"
                /\ answer'[g] \in {"whole", "cut"}
             \/ worker'[g] = "sending" /\ answer'[g] = "header"
             \/ worker'[g] = "closed" /\ answer'[g] = answer[g]
      BY <1>7 DEF Answer, Goes, Tells, TypeOK
    <2>2. Mine
      BY <1>1, <2>1 DEF Served
    <2> QED
      BY <1>2, <2>1, <2>2, OneGet
  <1>8. CASE SendBody(g)
    <2>1. /\ worker[g] = "sending" /\ UNCHANGED <<log, lost>> /\ Others
          /\ \/ worker'[g] = "served" /\ answer'[g] = "whole"
             \/ worker'[g] = "closed" /\ answer'[g] = answer[g]
      BY <1>8 DEF SendBody, Goes, Tells, TypeOK
    <2>2. Mine
      BY <1>1, <2>1 DEF Served
    <2> QED
      BY <1>2, <2>1, <2>2, OneGet
  <1>9. CASE LogResponse(g)
    <2>1. /\ worker[g] = "served" /\ worker'[g] = "closed"
          /\ answer'[g] = answer[g] /\ Logs("response", g) /\ Others
      BY <1>9 DEF LogResponse, Goes, TypeOK
    <2>2. /\ answer[g] \in {"whole", "cut"} /\ (answer[g] = "cut" => request[g] \in Listing)
          /\ Told(log, lost, "request", g) /\ Ordered(log, g)
          /\ ~Logged(log, "response", g)
      BY <1>1, <2>1 DEF Served
    <2>3. /\ Told(log', lost', "response", g) /\ Told(log', lost', "request", g)
          /\ Ordered(log', g)
      BY <2>1, <2>2, LoggedOrLost
    <2>4. Mine
      BY <2>1, <2>2, <2>3 DEF Served
    <2> QED
      BY <1>2, <2>1, <2>4, OneGet
  <1> QED
    BY <1>3, <1>4, <1>5, <1>6, <1>7, <1>8, <1>9 DEF GetSteps

(* Uploads are not logged.                                                 *)
LEMMA ClientServed ==
  ASSUME Gets,
         \/ \E u \in Upload : Start(u) \/ ClientSteps(u) \/ Collect(u)
         \/ UserExits \/ ProcessEnds \/ Killed
  PROVE  Gets'
  <1>1. UNCHANGED <<request, worker, answer, log, lost>>
    BY DEF Start, ClientSteps, Ask, ReadAnswer, SendChunk, EndUpload, Collect,
           UserExits, ProcessEnds, Killed, clientVars
  <1> QED
    BY <1>1 DEF Gets

(* Uploads do not touch the log.                                           *)
LEMMA UploadServed ==
  ASSUME TypeOK, Gets, NEW u \in Upload, UploadSteps(u) \/ Accept(u)
  PROVE  Gets'
  <1> USE ConstantFacts
  <1>1. UNCHANGED <<request, log, lost>>
    BY DEF UploadSteps, NoRequest, ReadUpload, OpenFile, CopyChunk, EndCopy,
           Disconnected, Accept, clientVars
  <1>2. ASSUME NEW g \in Get
        PROVE  worker'[g] = worker[g] /\ answer'[g] = answer[g]
    <2>1. g # u
      OBVIOUS
    <2>2. CASE UploadSteps(u)
      BY <2>1, <2>2 DEF UploadSteps, NoRequest, ReadUpload, OpenFile, CopyChunk,
                        EndCopy, Disconnected, Goes, Tells, TypeOK
    <2>3. CASE Accept(u)
      BY <2>1, <2>3 DEF Accept, Goes, TypeOK
    <2> QED
      BY <2>2, <2>3
  <1> QED
    BY <1>1, <1>2 DEF Gets

-----------------------------------------------------------------------------
(***************************************************************************)
(* The invariant, and what follows from it.                                *)
(***************************************************************************)
LEMMA InvInit == Init => Inv
  <1> SUFFICES ASSUME Init
               PROVE  Inv
    OBVIOUS
  <1> USE ConstantFacts
  <1>1. PICK s \in Scenario :
          /\ fileName = s.names /\ request = s.asks
          /\ conn = [c \in Connection |-> IF c \in s.made THEN "none" ELSE "never"]
    BY DEF Init
  <1>2. s.names \in [Upload -> Name] /\ s.asks \in [Get -> Request]
    BY FileServerAssumption
  <1>3. \A c \in Connection : conn[c] \in {"never", "none"}
    BY <1>1
  <1>4. TypeOK
    <2>1. conn \in [Connection -> {"never", "none", "open", "closed"}]
      BY <1>1
    <2>2. stored \in [Name -> Seq(Chunk \cup {Hole})]
      BY DEF Init
    <2>3. /\ {sent, written} \subseteq [Upload -> Nat]
          /\ \A u \in Upload : sent[u] <= Chunks[u] /\ written[u] <= sent[u]
      BY DEF Init
    <2>4. inbox \in [Connection -> Seq(Nat)] /\ log \in Seq(Entry)
          /\ lost \subseteq Entry /\ room \in [Get -> BOOLEAN]
      BY DEF Init
    <2>5. /\ client \in [Upload -> {"new", "connected", "asked", "sending", "over"}]
          /\ process \in {"running", "exiting", "over"}
          /\ worker \in [Connection -> {"none", "reading", "granted", "copying",
                         "serving", "sending", "served", "stored", "closed"}]
          /\ answer \in [Connection -> {"none", "OK", "ERROR", "400", "header",
                                        "whole", "cut"}]
      BY DEF Init
    <2> QED
      BY <1>1, <1>2, <2>1, <2>2, <2>3, <2>4, <2>5 DEF TypeOK, Entry
  <1>5. Uploads
    BY <1>3 DEF Init, Uploads, Handshake
  <1>6. WholeSoFar
    BY DEF Init, WholeSoFar
  <1>7. ChunksInPlace
    BY DEF Init, ChunksInPlace
  <1>8. Gets
    <2>1. /\ log = <<>>
          /\ \A g \in Get : worker[g] = "none" /\ answer[g] = "none"
      BY DEF Init
    <2>2. \A g : Ordered(log, g) /\ \A kind : ~Logged(log, kind, g)
      BY <2>1 DEF Ordered, Logged
    <2> QED
      BY <2>1, <2>2 DEF Gets, Served
  <1> QED
    BY <1>4, <1>5, <1>6, <1>7, <1>8 DEF Inv

(* One case per action.                                                    *)
LEMMA InvNext == Inv /\ [Next]_vars => Inv'
  <1> SUFFICES ASSUME Inv, [Next]_vars
               PROVE  Inv'
    OBVIOUS
  <1> USE DEF Inv
  <1>1. CASE UNCHANGED vars
    <2>1. TypeOK'
      BY <1>1 DEF vars, clientVars, TypeOK
    <2>2. Uploads'
      BY <1>1 DEF vars, clientVars, Uploads
    <2>3. WholeSoFar'
      BY <1>1 DEF vars, clientVars, WholeSoFar, Writers
    <2>4. ChunksInPlace' /\ Gets'
      BY <1>1 DEF vars, clientVars, ChunksInPlace, Gets
    <2> QED
      BY <2>1, <2>2, <2>3, <2>4
  <1>2. ASSUME NEW u \in Upload, Start(u) \/ ClientSteps(u) \/ Collect(u)
        PROVE  Inv'
    BY <1>2, TypeClient, ClientHandshake, ClientFiles, ClientServed
  <1>3. ASSUME NEW u \in Upload, UploadSteps(u)
        PROVE  Inv'
    BY <1>3, TypeUpload, WorkerHandshake, UploadFiles, UploadServed
  <1>4. CASE UserExits \/ ProcessEnds \/ Killed
    BY <1>4, TypeProcess, EndHandshake, ClientFiles, ClientServed
  <1>5. ASSUME NEW g \in Get, BrowserAsks(g) \/ BrowserReads(g) \/ BrowserLeaves(g) \/ GetSteps(g)
        PROVE  Inv'
    BY <1>5, TypeGet, GetHandshake, GetFiles, GetServed
  <1>6. ASSUME NEW c \in Connection, Accept(c)
        PROVE  Inv'
    <2>1. CASE c \in Upload
      BY <1>6, <2>1, TypeAccept, WorkerHandshake, AcceptFiles, UploadServed
    <2>2. CASE c \in Get
      BY <1>6, <2>2, TypeAccept, GetHandshake, AcceptFiles, GetServed
    <2> QED
      BY <2>1, <2>2, ConstantFacts
  <1> QED
    BY <1>1, <1>2, <1>3, <1>4, <1>5, <1>6 DEF Next

(* The invariant holds in every reachable state.                           *)
LEMMA InvAlways == Spec => []Inv
  BY InvInit, InvNext, PTL DEF Spec

(* Every variable keeps its type; no worker has written what was not sent, *)
(* and no client has sent more than its file (WorkerClient.java,           *)
(* Worker.java).                                                           *)
THEOREM FileServerTypeCorrect == Spec => []TypeOK
  BY InvAlways, PTL DEF Inv

(* A stored upload that had its file to itself is whole, of any length and *)
(* whenever its client was killed: the reader of the request line never    *)
(* takes a chunk (Worker.java: handleFileUpload).                          *)
THEOREM UploadsAreWhole == Spec => []UploadIsWhole
  <1>1. Inv => UploadIsWhole
    <2> SUFFICES ASSUME Inv, NEW u \in Upload, worker[u] = "stored",
                        Writers(fileName[u]) = {u}
                 PROVE  stored[fileName[u]] = [k \in 1 .. sent[u] |-> <<u, k>>]
      BY DEF UploadIsWhole
    <2>1. written[u] = sent[u]
      BY DEF Inv, Uploads, Handshake
    <2>2. stored[fileName[u]] = [k \in 1 .. written[u] |-> <<u, k>>]
      BY DEF Inv, WholeSoFar
    <2> QED
      BY <2>1, <2>2
  <1> QED
    BY <1>1, InvAlways, PTL

(* Uploads of one name at a time mix, but each writes at its own places    *)
(* (Worker.java: the FileOutputStream of each has its own offset).         *)
THEOREM ChunksKeepTheirPlaces == Spec => []ChunksInPlace
  BY InvAlways, PTL DEF Inv

(* With any number of browsers, whenever they leave and whether they read  *)
(* or not, and whichever entries the log did not take: requests before     *)
(* responses, each once, of a file only if all of it was written; and      *)
(* whoever is through with a listing, an error or a file has logged it, or *)
(* tried to (Worker.java: logRequest, logResponse).                        *)
THEOREM TheLogIsTrue == Spec => []LogIsTrue
  <1>1. Inv => LogIsTrue
    <2> DEFINE of(kind, g) == {k \in DOMAIN log : log[k] = <<kind, g>>}
    <2>1. ASSUME Inv, NEW g \in Get
          PROVE  /\ \A kind \in {"request", "response"} :
                      \A j, k \in of(kind, g) : j = k
                 /\ \A j \in of("request", g), k \in of("response", g) : j < k
                 /\ of("response", g) # {} =>
                      /\ of("request", g) # {} \/ <<"request", g>> \in lost
                      /\ answer[g] \in {"whole", "cut"}
                      /\ request[g] \in File => answer[g] = "whole"
                 /\ worker[g] = "closed" /\ answer[g] \in {"whole", "cut"} =>
                      of("response", g) # {} \/ <<"response", g>> \in lost
      <3>1. Served(g, request[g], worker[g], answer[g], log, lost)
        BY <2>1 DEF Inv, Gets
      <3>2. \A kind : of(kind, g) # {} <=> Logged(log, kind, g)
        BY DEF Logged
      <3>3. /\ \A kind \in {"request", "response"} :
                 \A j, k \in of(kind, g) : j = k
            /\ \A j \in of("request", g), k \in of("response", g) : j < k
        BY <3>1 DEF Served, Ordered
      <3>4. answer[g] = "cut" => request[g] \notin File
        BY <3>1 DEF Served, Listing, File
      <3> QED
        BY <3>1, <3>2, <3>3, <3>4 DEF Served, Told
    <2> QED
      BY <2>1 DEF LogIsTrue
  <1> QED
    BY <1>1, InvAlways, PTL
=============================================================================
