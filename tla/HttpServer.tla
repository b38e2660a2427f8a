------------------------------ MODULE HttpServer -------------------------------
(* The HTTP server of http_server.c between lwIP's callbacks and the request     *)
(* parser: sessions, the response each has under way, and how they end.  lwIP    *)
(* runs one callback at a time, to its end; any callback may come next.          *)
(* Left out: allocation failures; a session's memory is taken to start as zero.  *)
EXTENDS Naturals, Sequences, FiniteSets

CONSTANTS
    Conns,        \* TCP connections
    MaxClients,   \* http_server_init's max_client
    MaxRetries,   \* HTTP_MAX_RETRIES
    MaxFiles,     \* file descriptors of the file system
    FileChunks,   \* a page's length, in reads of 1024 bytes
    Kinds,        \* the requests clients send
    MaxRequests,  \* bound: requests, or frames, on a connection
    MayFail       \* tcp_close may return an error

None == "none"
NoFile == FileChunks + 1

ASSUME HttpAssumption ==
    /\ IsFiniteSet(Conns)
    /\ MaxClients \in Nat \ {0} /\ MaxFiles \in Nat /\ MaxRetries \in Nat
    /\ FileChunks \in Nat \ {0} /\ MaxRequests \in Nat
    /\ Kinds \subseteq {"page", "blob", "api", "post", "ws", "unknown"}
    /\ MayFail \in BOOLEAN

VARIABLES
    tcp,        \* "none", "open", or "unserved": accepted above the limit
    cbs,        \* what lwIP calls back: "session", "retry" (a close failed), "none"
    sess,       \* the session of each connection
    count,      \* client.count
    lost,       \* history: sessions that nothing refers to any more ...
    lostFiles,  \* ... and the files they had open
    unacked,    \* units written and not acknowledged
    asked,      \* requests of the client so far
    pieces,     \* segments of a request body still to come
    out,        \* history: what the connection was given to send
    expected    \* history: the answers to the requests handled so far

server == <<count, lost, lostFiles>>
client == <<asked, pieces>>
stream == <<out, expected>>
vars == <<tcp, cbs, sess, server, unacked, client, stream>>

\* A new session.
Fresh == [uri |-> None, connection |-> "CLOSE", ws |-> FALSE, error |-> FALSE,
          content |-> <<>>, borrowed |-> FALSE, context |-> FALSE,
          fd |-> NoFile, retries |-> 0]

FilesOpen == Cardinality({c \in Conns : sess[c].fd # NoFile}) + lostFiles

\* The units of an answer: the header with what a handler wrote, then a page's
\* chunks, or a constant of the program ("context").
Header == <<0>>
Blob == <<101, 102>>
Page == [i \in 1 .. FileChunks |-> i]

-------------------------------------------------------------------------------
(* One call of http_server_response_exe: the outcomes.  "out" is what tcp_write  *)
(* took: anything from nothing (no send buffer, no memory) to all of it.         *)

Outcome(s, written, done) == [s |-> s, out |-> written, done |-> done]

WriteContent(s) ==
    {LET rest == SubSeq(s.content, k + 1, Len(s.content)) IN
     Outcome([s EXCEPT !.content = rest,
                       !.borrowed = s.borrowed /\ rest # <<>>,
                       !.context = s.context /\ ~(s.borrowed /\ rest = <<>>)],
             SubSeq(s.content, 1, k), FALSE) : k \in 0 .. Len(s.content)}

ReadFile(s) ==
    IF s.fd = 0
    THEN {Outcome([s EXCEPT !.fd = NoFile], <<>>, TRUE)}
    ELSE {Outcome([s EXCEPT !.content = <<FileChunks + 1 - s.fd>>, !.fd = s.fd - 1],
                  <<>>, FALSE)}

TakeContext(s) ==
    {Outcome([s EXCEPT !.content = Blob, !.borrowed = TRUE], <<>>, FALSE)}

\* Fault: a session with nothing left in its buffer is taken to be done.
Hasty(s) == IF s.content # <<>> THEN WriteContent(s)
            ELSE {Outcome([s EXCEPT !.fd = NoFile, !.context = FALSE], <<>>, TRUE)}

Respond(s) ==
    CASE s.content # <<>> -> WriteContent(s)
      [] s.content = <<>> /\ s.fd # NoFile -> ReadFile(s)
      [] s.content = <<>> /\ s.fd = NoFile /\ s.context -> TakeContext(s)
      [] OTHER -> {Outcome(s, <<>>, TRUE)}

FreeRequest(s) == [s EXCEPT !.uri = None]

\* What the callers make of its result.
Settled(r) == IF r.done /\ r.s.connection # "UPGRADE" THEN FreeRequest(r.s) ELSE r.s

\* http_server_request_handler, before it calls http_server_response_exe.
Prepared(s) ==
    [s EXCEPT !.content = Header, !.borrowed = FALSE,
              !.context = s.context \/ s.uri = "blob",
              !.fd = IF s.uri # "page" THEN s.fd
                     ELSE IF FilesOpen < MaxFiles THEN FileChunks ELSE NoFile]

Answer(s) ==
    Header \o (IF Prepared(s).fd = FileChunks THEN Page ELSE <<>>)
           \o (IF s.uri = "blob" THEN Blob ELSE <<>>)

-------------------------------------------------------------------------------
(* Steps that a connection takes.                                              *)

\* Its session goes on as outcome r, and has that many units unacknowledged.
GoesOn(c, s, written, left) ==
    /\ sess' = [sess EXCEPT ![c] = s]
    /\ out' = [out EXCEPT ![c] = @ \o written]
    /\ unacked' = [unacked EXCEPT ![c] = left + Len(written)]

Gone(c) ==
    /\ tcp' = [tcp EXCEPT ![c] = "none"]
    /\ cbs' = [cbs EXCEPT ![c] = "none"]
    /\ sess' = [sess EXCEPT ![c] = Fresh]
    /\ unacked' = [unacked EXCEPT ![c] = 0]
    /\ asked' = [asked EXCEPT ![c] = 0]
    /\ pieces' = [pieces EXCEPT ![c] = 0]
    /\ out' = [out EXCEPT ![c] = <<>>]
    /\ expected' = [expected EXCEPT ![c] = <<>>]

\* A crash (the exception handler) resets the device.
Reset ==
    /\ tcp' = [c \in Conns |-> "none"]
    /\ cbs' = [c \in Conns |-> "none"]
    /\ sess' = [c \in Conns |-> Fresh]
    /\ count' = 0 /\ lost' = 0 /\ lostFiles' = 0
    /\ unacked' = [c \in Conns |-> 0]
    /\ asked' = [c \in Conns |-> 0]
    /\ pieces' = [c \in Conns |-> 0]
    /\ out' = [c \in Conns |-> <<>>]
    /\ expected' = [c \in Conns |-> <<>>]

\* http_server_session_free frees the buffer twice if a file is open, and a
\* context as if it were a buffer.
FreesWrongly(s) == s.content # <<>> /\ (s.fd # NoFile \/ s.borrowed)

\* Fault: a slot is not given back.
SlotKept(n) == n

LessOne(n) == IF n = 0 THEN 0 ELSE n - 1

\* http_server_tcp_close of a session s: tcp_close succeeds ...
CloseSucceeds(c, s) ==
    \/ /\ Gone(c)
       /\ count' = LessOne(count)
       /\ UNCHANGED <<lost, lostFiles>>
    \/ FreesWrongly(s) /\ Reset

\* ... or fails: the callbacks are gone, a poll is asked for, with no session.
CloseFails(c, s) ==
    /\ MayFail
    /\ cbs' = [cbs EXCEPT ![c] = "retry"]
    /\ sess' = [sess EXCEPT ![c] = Fresh]
    /\ lost' = lost + 1
    /\ lostFiles' = lostFiles + (IF s.fd # NoFile THEN 1 ELSE 0)
    /\ UNCHANGED <<tcp, count, unacked, client, stream>>

Close(c, s) == CloseSucceeds(c, s) \/ CloseFails(c, s)

-------------------------------------------------------------------------------
(* lwIP's callbacks.                                                           *)

\* http_server_tcp_accept_cb.
Accept(c) ==
    /\ tcp[c] = "none"
    /\ count < MaxClients
    /\ tcp' = [tcp EXCEPT ![c] = "open"]
    /\ cbs' = [cbs EXCEPT ![c] = "session"]
    /\ count' = count + 1
    /\ UNCHANGED <<sess, lost, lostFiles, unacked, client, stream>>

\* Above the limit it returns 0, which lwIP takes for ERR_OK.
AcceptTooMany(c) ==
    /\ tcp[c] = "none"
    /\ count >= MaxClients
    /\ tcp' = [tcp EXCEPT ![c] = "unserved"]
    /\ UNCHANGED <<cbs, sess, server, unacked, client, stream>>

\* The client's next request: the session in which its head has been parsed.
Asks(c, kind) ==
    /\ kind \in Kinds
    /\ cbs[c] = "session"
    /\ sess[c].connection # "UPGRADE"
    /\ asked[c] < MaxRequests /\ pieces[c] = 0
    /\ asked' = [asked EXCEPT ![c] = @ + 1]

Heard(c) == ~sess[c].error /\ sess[c].uri = None

\* on_url refuses a request while another is under way: the parser gives up on
\* the connection.
RecvBusy(c) ==
    /\ \E kind \in Kinds : Asks(c, kind)
    /\ ~Heard(c)
    /\ sess' = [sess EXCEPT ![c].error = TRUE]
    /\ UNCHANGED <<tcp, cbs, server, unacked, pieces, stream>>

\* No route has the URI: no answer.
RecvUnknown(c) ==
    /\ Asks(c, "unknown") /\ Heard(c)
    /\ \E conn \in {"CLOSE", "KEEP_ALIVE"} :
          sess' = [sess EXCEPT ![c].connection = conn]
    /\ UNCHANGED <<tcp, cbs, server, unacked, pieces, stream>>

\* A GET: on_message_complete handles it.
RecvGet(c) ==
    /\ \E kind \in {"page", "blob", "api"}, conn \in {"CLOSE", "KEEP_ALIVE"} :
          LET s == [sess[c] EXCEPT !.uri = kind, !.connection = conn] IN
          /\ Asks(c, kind) /\ Heard(c)
          /\ expected' = [expected EXCEPT ![c] = @ \o Answer(s)]
          /\ \E r \in Respond(Prepared(s)) : GoesOn(c, Settled(r), r.out, unacked[c])
    /\ UNCHANGED <<tcp, cbs, server, pieces>>

\* The head of a POST; its body comes in one or two segments.
RecvPost(c) ==
    /\ Asks(c, "post") /\ Heard(c)
    /\ \E conn \in {"CLOSE", "KEEP_ALIVE"} :
          sess' = [sess EXCEPT ![c].uri = "post", ![c].connection = conn]
    /\ \E n \in 1 .. 2 : pieces' = [pieces EXCEPT ![c] = n]
    /\ UNCHANGED <<tcp, cbs, server, unacked, stream>>

\* on_body handles the request; if it was the last segment, on_message_complete
\* handles it once more.  Each time the answer is made anew, and takes the place
\* of what is left of the one before.
BodyHandled(c) ==
    /\ pieces' = [pieces EXCEPT ![c] = @ - 1]
    /\ \/ /\ sess[c].uri = None
          /\ UNCHANGED <<sess, unacked, stream>>
       \/ /\ sess[c].uri # None
          /\ \E r \in Respond(Prepared(sess[c])) :
               IF pieces[c] > 1
               THEN /\ GoesOn(c, Settled(r), r.out, unacked[c])
                    /\ expected' = [expected EXCEPT ![c] = out[c] \o Header]
               ELSE \E r2 \in Respond(Prepared(Settled(r))) :
                      /\ GoesOn(c, Settled(r2), r.out \o r2.out, unacked[c])
                      /\ expected' = [expected EXCEPT ![c] = out[c] \o r.out \o Header]
    /\ UNCHANGED <<tcp, cbs, server, asked>>

\* No descriptor is left to save a setting with: the device restarts.
SaveFails == FilesOpen >= MaxFiles /\ Reset

\* A POST may set what has to be saved.
RecvBody(c) ==
    /\ cbs[c] = "session" /\ pieces[c] > 0
    /\ BodyHandled(c) \/ (sess[c].uri # None /\ SaveFails)

\* A websocket handshake on /fw_stream ...
RecvUpgrade(c) ==
    LET s == [sess[c] EXCEPT !.uri = "ws", !.connection = "UPGRADE", !.ws = TRUE,
                             !.content = @ \o Header] IN
    /\ Asks(c, "ws") /\ Heard(c)
    /\ expected' = [expected EXCEPT ![c] = @ \o Header]
    /\ \E r \in Respond(s) : GoesOn(c, Settled(r), r.out, unacked[c])
    /\ UNCHANGED <<tcp, cbs, server, pieces>>

\* ... and a frame, which the upload handler answers or not.
RecvFrame(c) ==
    /\ cbs[c] = "session" /\ sess[c].ws
    /\ asked[c] < MaxRequests
    /\ asked' = [asked EXCEPT ![c] = @ + 1]
    /\ \E answer \in {<<>>, <<201>>} :
          LET s == [sess[c] EXCEPT !.content = @ \o answer] IN
          /\ expected' = [expected EXCEPT ![c] = @ \o answer]
          /\ \E r \in Respond(s) : GoesOn(c, r.s, r.out, unacked[c])
    /\ UNCHANGED <<tcp, cbs, server, pieces>>

\* http_server_tcp_sent: the client acknowledged.
Sent(c) ==
    /\ cbs[c] = "session" /\ unacked[c] > 0
    /\ \E left \in 0 .. unacked[c] - 1, r \in Respond(sess[c]) :
          IF r.done /\ sess[c].connection = "KEEP_ALIVE"
          THEN Close(c, r.s)
          ELSE /\ GoesOn(c, [Settled(r) EXCEPT !.retries = 0], r.out, left)
               /\ UNCHANGED <<tcp, cbs, server, client, expected>>

\* Fault: a poll only counts.
OnlyCounts(s) == {Outcome(s, <<>>, FALSE)}

\* What a poll of a session does to its response.
Polled(s) == IF s.uri # None THEN Respond(s) ELSE {Outcome(s, <<>>, FALSE)}

\* Fault: the polls are not counted.
NotYet(s) == FALSE

TriedOut(s) == s.retries >= MaxRetries

\* http_server_tcp_poll of a session ...
Poll(c) ==
    /\ cbs[c] = "session"
    /\ LET closing == sess[c].connection = "CLOSE"
           s == [sess[c] EXCEPT !.retries = IF closing /\ @ < MaxRetries THEN @ + 1 ELSE @] IN
       IF closing /\ TriedOut(sess[c])
       THEN Close(c, s)
       ELSE /\ \E r \in Polled(s) : GoesOn(c, Settled(r), r.out, unacked[c])
            /\ UNCHANGED <<tcp, cbs, server, client, expected>>

\* ... and of a close that failed: when it succeeds this time (if not, nothing
\* changes), the count is looked for in a session that is NULL.
PollRetry(c) == cbs[c] = "retry" /\ Reset

\* The client closes (http_server_tcp_recv without data) or the connection fails
\* (http_server_tcp_error); without a session lwIP alone drops the connection.
Ends(c) ==
    \/ cbs[c] = "session" /\ Close(c, sess[c])
    \/ tcp[c] # "none" /\ cbs[c] # "session" /\ Gone(c) /\ UNCHANGED server

-------------------------------------------------------------------------------
Init ==
    /\ tcp = [c \in Conns |-> "none"]
    /\ cbs = [c \in Conns |-> "none"]
    /\ sess = [c \in Conns |-> Fresh]
    /\ count = 0 /\ lost = 0 /\ lostFiles = 0
    /\ unacked = [c \in Conns |-> 0]
    /\ asked = [c \in Conns |-> 0]
    /\ pieces = [c \in Conns |-> 0]
    /\ out = [c \in Conns |-> <<>>]
    /\ expected = [c \in Conns |-> <<>>]

Request(c) == \/ RecvBusy(c) \/ RecvUnknown(c) \/ RecvGet(c) \/ RecvPost(c)
              \/ RecvBody(c) \/ RecvUpgrade(c) \/ RecvFrame(c)

\* The alarm and the front panel save settings too, between any two callbacks.
SaveElsewhere == SaveFails

Next == SaveElsewhere \/ \E c \in Conns :
    \/ Accept(c) \/ AcceptTooMany(c) \/ Request(c) \/ Ends(c)
    \/ Sent(c) \/ Poll(c) \/ PollRetry(c)

Spec == Init /\ [][Next]_vars

\* lwIP polls, clients acknowledge, and the send buffer is not full for ever.
LiveSpec ==
    /\ Spec
    /\ \A c \in Conns : /\ WF_vars(Sent(c))
                         /\ WF_vars(Poll(c))
                         /\ SF_vars(Poll(c) /\ out' # out)
-------------------------------------------------------------------------------
(* Properties.                                                                 *)

Sessions ==
    [uri : Kinds \union {None}, connection : {"CLOSE", "KEEP_ALIVE", "UPGRADE"},
     ws : BOOLEAN, error : BOOLEAN, content : Seq(Nat), borrowed : BOOLEAN,
     context : BOOLEAN, fd : 0 .. NoFile, retries : 0 .. MaxRetries]

TypeOK ==
    /\ tcp \in [Conns -> {"none", "open", "unserved"}]
    /\ cbs \in [Conns -> {"none", "session", "retry"}]
    /\ sess \in [Conns -> Sessions]
    /\ count \in 0 .. MaxClients
    /\ lost \in Nat /\ lostFiles \in Nat /\ lostFiles <= lost
    /\ FilesOpen <= MaxFiles
    /\ unacked \in [Conns -> Nat] /\ asked \in [Conns -> 0 .. MaxRequests]
    /\ pieces \in [Conns -> 0 .. 2]
    /\ out \in [Conns -> Seq(Nat)] /\ expected \in [Conns -> Seq(Nat)]

\* client.count is the number of sessions: whichever way a connection ends, its
\* slot is given back once.  Only a session whose close failed keeps its slot.
CountIsSessions == count = Cardinality({c \in Conns : cbs[c] = "session"}) + lost

\* What a session still has to send.
Left(s) == s.content
    \o (IF s.fd # NoFile THEN SubSeq(Page, FileChunks + 1 - s.fd, FileChunks) ELSE <<>>)
    \o (IF s.context /\ ~s.borrowed THEN Blob ELSE <<>>)

\* Through partial writes, polls, acknowledgements and further requests, a
\* connection's answers lose, repeat and reorder nothing.
NothingLost ==
    \A c \in Conns : cbs[c] = "session" => expected[c] = out[c] \o Left(sess[c])

\* The server itself closes a keep-alive connection only when it has sent the
\* whole answer.
ClosesWhole ==
    [][\A c \in Conns : Sent(c) /\ cbs'[c] # "session" => out[c] = expected[c]]_vars

\* An answer on a keep-alive connection comes to its end, and the connection too:
\* a poll sends what an acknowledgement has only read.  (A POST is asked for only
\* from its answer on: a poll between its head and its body takes it for done.)
AnswerEnds ==
    \A c \in Conns :
        sess[c].connection = "KEEP_ALIVE"
            /\ (sess[c].uri \notin {None, "post"} \/ Left(sess[c]) # <<>>)
                ~> cbs[c] # "session" \/ sess[c].connection # "KEEP_ALIVE"

\* A connection that asks for nothing, or to be closed, does not keep its slot.
IdleEnds ==
    \A c \in Conns :
        cbs[c] = "session" ~> cbs[c] # "session" \/ sess[c].connection # "CLOSE"

\* A page's descriptor comes back, whether the client reads on or not: with none
\* left, the next setting to be saved restarts the device.
FilesReturn == \A c \in Conns : sess[c].fd # NoFile ~> sess[c].fd = NoFile
===============================================================================
