--------------------------- MODULE HttpServerProofs ----------------------------
(* Proofs about HttpServer, for any number of connections, slots, descriptors,   *)
(* retries and requests, and any length of a page.                               *)
EXTENDS HttpServer, SequenceTheorems, FiniteSetTheorems, TLAPS

-------------------------------------------------------------------------------
(* Sessions, and what one call of http_server_response_exe makes of them.      *)

Empty(s) == s.content = <<>> /\ s.fd = NoFile /\ ~s.context

\* A session without a request has nothing to send; only a page has a file, only
\* a blob a constant, and a borrowed buffer is that constant.
Coherent(s) ==
    /\ s.uri = None => Empty(s)
    /\ s.fd # NoFile => s.uri = "page"
    /\ s.context => s.uri = "blob"
    /\ s.borrowed => s.context /\ s.content # <<>>
    /\ s.ws => s.uri = "ws" /\ s.connection = "UPGRADE"

FileRest(s) == IF s.fd # NoFile THEN SubSeq(Page, FileChunks + 1 - s.fd, FileChunks)
               ELSE <<>>
ContextRest(s) == IF s.context /\ ~s.borrowed THEN Blob ELSE <<>>

\* What a call gives out, with what it leaves, is what was there.
Kept(s, r) ==
    /\ r.s \in Sessions /\ Coherent(r.s)
    /\ r.out \in Seq(Nat)
    /\ r.out \o Left(r.s) = Left(s)
    /\ r.s.uri = s.uri /\ r.s.connection = s.connection
    /\ s.fd = NoFile => r.s.fd = NoFile
    /\ r.done \in BOOLEAN /\ (r.done => Empty(r.s) /\ r.out = <<>>)

LEMMA Associative == \A s, t, u \in Seq(Nat) : (s \o t) \o u = s \o (t \o u)
<1> SUFFICES ASSUME NEW s \in Seq(Nat), NEW t \in Seq(Nat), NEW u \in Seq(Nat)
             PROVE  (s \o t) \o u = s \o (t \o u)
  OBVIOUS
<1> QED BY ConcatAssociative

LEMMA PageProperties ==
    /\ FileChunks \in Nat \ {0} /\ NoFile = FileChunks + 1
    /\ Page \in Seq(Nat) /\ Len(Page) = FileChunks
    /\ \A i \in 1 .. FileChunks : Page[i] = i
BY HttpAssumption DEF HttpAssumption, Page, NoFile

LEMMA RestTypes ==
    ASSUME NEW s \in Sessions
    PROVE  /\ FileRest(s) \in Seq(Nat) /\ ContextRest(s) \in Seq(Nat)
           /\ Left(s) \in Seq(Nat)
<1>1. FileRest(s) \in Seq(Nat)
  <2>1. CASE s.fd = NoFile
    BY <2>1 DEF FileRest
  <2>2. CASE s.fd # NoFile
    <3>1. s.fd \in 0 .. FileChunks
      BY <2>2, PageProperties DEF Sessions
    <3>2. \A i \in FileChunks + 1 - s.fd .. FileChunks : Page[i] \in Nat
      BY <3>1, PageProperties
    <3>3. SubSeq(Page, FileChunks + 1 - s.fd, FileChunks) \in Seq(Nat)
      BY <3>1, <3>2, PageProperties, SubSeqProperties
    <3> QED BY <2>2, <3>3 DEF FileRest
  <2> QED BY <2>1, <2>2
<1>2. ContextRest(s) \in Seq(Nat)
  BY DEF ContextRest, Blob
<1>3. s.content \in Seq(Nat)
  BY DEF Sessions
<1> QED BY <1>1, <1>2, <1>3, ConcatProperties DEF Left, FileRest, ContextRest

\* A write gives out the first units of the buffer.
LEMMA WriteKeeps ==
    ASSUME NEW s \in Sessions, Coherent(s), s.content # <<>>, NEW r \in WriteContent(s)
    PROVE  Kept(s, r)
<1>1. PICK k \in 0 .. Len(s.content) :
         r = LET rest == SubSeq(s.content, k + 1, Len(s.content)) IN
             Outcome([s EXCEPT !.content = rest,
                               !.borrowed = s.borrowed /\ rest # <<>>,
                               !.context = s.context /\ ~(s.borrowed /\ rest = <<>>)],
                     SubSeq(s.content, 1, k), FALSE)
  BY DEF WriteContent
<1> DEFINE rest == SubSeq(s.content, k + 1, Len(s.content))
           first == SubSeq(s.content, 1, k)
<1>2. s.content \in Seq(Nat) /\ Len(s.content) \in Nat
  BY DEF Sessions
<1>3. /\ rest \in Seq(Nat) /\ first \in Seq(Nat)
      /\ first \o rest = s.content
  <2>1. \A i \in 1 .. Len(s.content) : s.content[i] \in Nat
    BY <1>2, ElementOfSeq
  <2>2. rest \in Seq(Nat)
    BY <1>2, <2>1, SubSeqProperties
  <2>3. first \in Seq(Nat)
    BY <1>2, <2>1, SubSeqProperties
  <2>4. first \o rest = SubSeq(s.content, 1, Len(s.content))
    <3>1. /\ 1 \in 1 .. Len(s.content) + 1 /\ k \in 1 - 1 .. Len(s.content)
          /\ Len(s.content) \in k .. Len(s.content)
      BY <1>2
    <3> QED BY <1>2, <3>1, ConcatAdjacentSubSeq, Zenon
  <2> QED BY <1>2, <2>2, <2>3, <2>4, SubSeqFull
<1> HIDE DEF rest, first
<1>4. /\ r.out = first /\ r.done = FALSE
      /\ r.s = [s EXCEPT !.content = rest,
                         !.borrowed = s.borrowed /\ rest # <<>>,
                         !.context = s.context /\ ~(s.borrowed /\ rest = <<>>)]
  BY <1>1 DEF Outcome, rest, first
<1>5. /\ r.s.content = rest /\ r.s.fd = s.fd /\ r.s.uri = s.uri /\ r.s.ws = s.ws
      /\ r.s.connection = s.connection
      /\ r.s.error = s.error /\ r.s.retries = s.retries
      /\ r.s.borrowed = (s.borrowed /\ rest # <<>>)
      /\ r.s.context = (s.context /\ ~(s.borrowed /\ rest = <<>>))
  BY <1>4 DEF Sessions
<1>6. r.s \in Sessions
  <2>1. (s.borrowed /\ rest # <<>>) \in BOOLEAN
    BY Zenon
  <2>2. (s.context /\ ~(s.borrowed /\ rest = <<>>)) \in BOOLEAN
    BY Zenon
  <2> QED BY <1>3, <1>4, <2>1, <2>2 DEF Sessions
<1>7. Coherent(r.s)
  BY <1>5, Zenon DEF Coherent, Empty
<1>8. r.out \o Left(r.s) = Left(s)
  <2>1. FileRest(r.s) = FileRest(s)
    BY <1>5 DEF FileRest
  <2>2. ContextRest(r.s) = ContextRest(s)
    BY <1>5, Zenon DEF ContextRest, Coherent
  <2> DEFINE F == FileRest(s)
             C == ContextRest(s)
  <2>3. Left(r.s) = (rest \o F) \o C /\ Left(s) = ((first \o rest) \o F) \o C
    BY <1>3, <1>5, <2>1, <2>2 DEF Left, FileRest, ContextRest
  <2>4. F \in Seq(Nat) /\ C \in Seq(Nat)
    BY RestTypes
  <2> HIDE DEF F, C
  <2>5. rest \o F \in Seq(Nat)
    BY <1>3, <2>4, ConcatProperties
  <2>6. (first \o (rest \o F)) \o C = first \o ((rest \o F) \o C)
    BY <1>3, <2>4, <2>5, Associative
  <2>7. (first \o rest) \o F = first \o (rest \o F)
    BY <1>3, <2>4, Associative
  <2> QED BY <1>4, <2>3, <2>6, <2>7
<1> QED BY <1>3, <1>4, <1>5, <1>6, <1>7, <1>8 DEF Kept

\* A read takes the page's next chunk into the buffer, or closes the file.
LEMMA ReadKeeps ==
    ASSUME NEW s \in Sessions, Coherent(s), s.content = <<>>, s.fd # NoFile,
           NEW r \in ReadFile(s)
    PROVE  Kept(s, r)
<1>1. s.fd \in 0 .. FileChunks /\ FileChunks \in Nat \ {0}
  BY PageProperties DEF Sessions
<1>2. s.uri = "page" /\ ~s.context /\ ~s.borrowed
  BY DEF Coherent
<1>3. Left(s) = SubSeq(Page, FileChunks + 1 - s.fd, FileChunks)
  <2>1. FileRest(s) \in Seq(Nat)
    BY RestTypes
  <2> QED BY <1>2, <2>1, ConcatEmptySeq DEF Left, FileRest
<1>4. CASE s.fd = 0
  <2>1. /\ r = Outcome([s EXCEPT !.fd = NoFile], <<>>, TRUE)
    BY <1>4 DEF ReadFile
  <2>2. r.s = [s EXCEPT !.fd = NoFile] /\ r.out = <<>> /\ r.done
    BY <2>1 DEF Outcome
  <2>3. r.s \in Sessions
    <3>1. NoFile \in 0 .. NoFile
      BY PageProperties
    <3> QED BY <2>2, <3>1 DEF Sessions
  <2>4. /\ r.s.content = <<>> /\ r.s.fd = NoFile /\ r.s.uri = s.uri /\ r.s.ws = s.ws
        /\ r.s.connection = s.connection /\ r.s.borrowed = s.borrowed
        /\ r.s.context = s.context
    BY <2>2 DEF Sessions
  <2>5. Left(r.s) = <<>>
    BY <1>2, <2>4 DEF Left
  <2>6. Left(s) = <<>>
    BY <1>1, <1>3, <1>4, SubSeqEmpty
  <2>7. Empty(r.s) /\ Coherent(r.s)
    BY <1>2, <2>4, Zenon DEF Empty, Coherent
  <2>8. r.done \in BOOLEAN
    BY <2>1 DEF Outcome
  <2> QED BY <2>2, <2>3, <2>4, <2>5, <2>6, <2>7, <2>8 DEF Kept
<1>5. CASE s.fd # 0
  <2> DEFINE i == FileChunks + 1 - s.fd
  <2>1. i \in 1 .. FileChunks
    BY <1>1, <1>5
  <2>2. r = Outcome([s EXCEPT !.content = <<i>>, !.fd = s.fd - 1], <<>>, FALSE)
    BY <1>5 DEF ReadFile
  <2>3. /\ r.s = [s EXCEPT !.content = <<i>>, !.fd = s.fd - 1]
        /\ r.out = <<>> /\ r.done = FALSE
    BY <2>2 DEF Outcome
  <2>4. <<i>> \in Seq(Nat) /\ s.fd - 1 \in 0 .. NoFile /\ s.fd - 1 # NoFile
    BY <1>1, <1>5, <2>1, PageProperties
  <2>5. r.s \in Sessions
    BY <2>3, <2>4 DEF Sessions
  <2>6. /\ r.s.content = <<i>> /\ r.s.fd = s.fd - 1 /\ r.s.uri = s.uri /\ r.s.ws = s.ws
        /\ r.s.connection = s.connection /\ r.s.borrowed = s.borrowed
        /\ r.s.context = s.context
    BY <2>3 DEF Sessions
  <2>7. Coherent(r.s)
    BY <1>2, <2>6, Zenon DEF Coherent, None
  <2>8. Left(r.s) = <<i>> \o SubSeq(Page, i + 1, FileChunks)
    <3>1. FileChunks + 1 - (s.fd - 1) = i + 1
      BY <1>1
    <3>2. FileRest(r.s) \in Seq(Nat)
      BY <2>5, RestTypes
    <3>3. FileRest(r.s) = SubSeq(Page, i + 1, FileChunks)
      BY <2>4, <2>6, <3>1 DEF FileRest
    <3>4. Left(r.s) = (<<i>> \o FileRest(r.s)) \o <<>>
      BY <1>2, <2>6 DEF Left, FileRest
    <3>5. <<i>> \o FileRest(r.s) \in Seq(Nat)
      BY <2>4, <3>2, ConcatProperties
    <3> QED BY <3>3, <3>4, <3>5, ConcatEmptySeq
  <2>9. Left(s) = <<Page[i]>> \o SubSeq(Page, i + 1, FileChunks)
    <3>1. /\ Page \in Seq(Nat) /\ i \in 1 .. Len(Page)
          /\ FileChunks \in i .. Len(Page)
      BY <1>1, <2>1, PageProperties
    <3>2. SubSeq(Page, i, FileChunks)
            = <<Page[i]>> \o SubSeq(Page, i + 1, FileChunks)
      BY <3>1, SubSeqRecursiveFirst, Zenon
    <3> QED BY <1>3, <3>2
  <2>10. Page[i] = i
    BY <2>1, PageProperties
  <2>11. r.out \o Left(r.s) = Left(s)
    BY <2>3, <2>5, <2>8, <2>9, <2>10, RestTypes, ConcatEmptySeq
  <2>12. r.out \in Seq(Nat)
    BY <2>3
  <2>13. r.done \in BOOLEAN /\ ~r.done
    BY <2>3, Zenon
  <2> QED BY <2>5, <2>6, <2>7, <2>11, <2>12, <2>13, Zenon DEF Kept
<1> QED BY <1>4, <1>5

\* A constant becomes the buffer.
LEMMA TakeKeeps ==
    ASSUME NEW s \in Sessions, Coherent(s), s.content = <<>>, s.fd = NoFile, s.context,
           NEW r \in TakeContext(s)
    PROVE  Kept(s, r)
<1>1. /\ r.s = [s EXCEPT !.content = Blob, !.borrowed = TRUE]
      /\ r.out = <<>> /\ r.done = FALSE
  BY DEF TakeContext, Outcome
<1>2. Blob \in Seq(Nat) /\ Blob # <<>>
  BY DEF Blob
<1>3. r.s \in Sessions
  BY <1>1, <1>2 DEF Sessions
<1>4. /\ r.s.content = Blob /\ r.s.fd = NoFile /\ r.s.uri = s.uri /\ r.s.ws = s.ws
      /\ r.s.connection = s.connection /\ r.s.borrowed = TRUE /\ r.s.context = s.context
  BY <1>1 DEF Sessions
<1>5. Coherent(r.s)
  BY <1>2, <1>4, Zenon DEF Coherent, Empty
<1>6. ~s.borrowed
  BY DEF Coherent
<1>7. Left(s) = Blob /\ Left(r.s) = Blob
  BY <1>2, <1>4, <1>6, ConcatEmptySeq DEF Left
<1>8. r.out \o Left(r.s) = Left(s) /\ r.out \in Seq(Nat)
  BY <1>1, <1>2, <1>7, ConcatEmptySeq
<1>9. r.done \in BOOLEAN /\ ~r.done
  BY <1>1, Zenon
<1> QED BY <1>3, <1>4, <1>5, <1>8, <1>9, Zenon DEF Kept

\* Whatever a call does, it neither loses nor repeats nor reorders anything.
LEMMA RespondKeeps ==
    ASSUME NEW s \in Sessions, Coherent(s), NEW r \in Respond(s)
    PROVE  Kept(s, r)
<1>1. CASE s.content # <<>>
  BY <1>1, WriteKeeps DEF Respond
<1>2. CASE s.content = <<>> /\ s.fd # NoFile
  BY <1>2, ReadKeeps DEF Respond
<1>3. CASE s.content = <<>> /\ s.fd = NoFile /\ s.context
  BY <1>3, TakeKeeps DEF Respond
<1>4. CASE s.content = <<>> /\ s.fd = NoFile /\ ~s.context
  <2>1. r.s = s /\ r.out = <<>> /\ r.done = TRUE
    BY <1>4 DEF Respond, Outcome
  <2>2. Left(s) \in Seq(Nat)
    BY RestTypes
  <2>3. r.out \o Left(s) = Left(s) /\ r.out \in Seq(Nat)
    BY <2>1, <2>2, ConcatEmptySeq
  <2>4. r.done \in BOOLEAN
    BY <2>1, Zenon
  <2> QED BY <1>4, <2>1, <2>3, <2>4, Zenon DEF Kept, Empty
<1> QED BY <1>1, <1>2, <1>3, <1>4

\* A call with something in the buffer is never the last one.
LEMMA WriteGoesOn ==
    ASSUME NEW s \in Sessions, s.content # <<>>, NEW r \in Respond(s)
    PROVE  ~r.done
<1>1. r \in WriteContent(s)
  BY DEF Respond
<1>2. PICK t, u : r = Outcome(t, u, FALSE)
  BY <1>1, Zenon DEF WriteContent
<1>3. r.done = FALSE
  BY <1>2 DEF Outcome
<1> QED BY <1>3, Zenon

\* Forgetting the request of an answer that is done.
LEMMA SettledKeeps ==
    ASSUME NEW s \in Sessions, NEW r, Kept(s, r)
    PROVE  /\ Settled(r) \in Sessions /\ Coherent(Settled(r))
           /\ Left(Settled(r)) = Left(r.s)
           /\ Settled(r).fd = r.s.fd
           /\ Settled(r).uri \in {s.uri, None}
           /\ ~r.done => Settled(r).uri = s.uri
           /\ Settled(r).context = r.s.context
<1> USE DEF Kept
<1>1. CASE r.done /\ r.s.connection # "UPGRADE"
  <2>1. Settled(r) = [r.s EXCEPT !.uri = None]
    BY <1>1 DEF Settled, FreeRequest
  <2>2. Settled(r) \in Sessions
    BY <2>1 DEF Sessions
  <2>3. /\ Settled(r).uri = None /\ Settled(r).content = r.s.content
        /\ Settled(r).fd = r.s.fd /\ Settled(r).context = r.s.context
        /\ Settled(r).borrowed = r.s.borrowed /\ Settled(r).ws = r.s.ws
    BY <2>1 DEF Sessions
  <2>4. Empty(r.s)
    BY <1>1
  <2>5. r.s.ws => r.s.connection = "UPGRADE"
    BY Zenon DEF Coherent
  <2> QED BY <1>1, <2>2, <2>3, <2>4, <2>5, Zenon DEF Coherent, Empty, Left
<1>2. CASE ~(r.done /\ r.s.connection # "UPGRADE")
  <2>1. Settled(r) = r.s
    BY <1>2, Zenon DEF Settled
  <2> QED BY <1>2, <2>1, Zenon
<1> QED BY <1>1, <1>2

\* Counting the polls changes nothing of what a session has to send.
LEMMA RetriedKeeps ==
    ASSUME NEW s \in Sessions, NEW n \in 0 .. MaxRetries, Coherent(s)
    PROVE  LET t == [s EXCEPT !.retries = n] IN
           /\ t \in Sessions /\ Coherent(t) /\ Left(t) = Left(s)
           /\ t.fd = s.fd /\ t.uri = s.uri /\ t.connection = s.connection
<1> DEFINE t == [s EXCEPT !.retries = n]
<1>1. t \in Sessions
  BY DEF Sessions
<1>2. /\ t.uri = s.uri /\ t.content = s.content /\ t.fd = s.fd
      /\ t.context = s.context /\ t.borrowed = s.borrowed /\ t.ws = s.ws
      /\ t.connection = s.connection
  BY DEF Sessions
<1> HIDE DEF t
<1>3. Coherent(t)
  BY <1>2, Zenon DEF Coherent, Empty
<1>4. Left(t) = Left(s)
  BY <1>2, Zenon DEF Left
<1> QED BY <1>1, <1>2, <1>3, <1>4 DEF t

\* A handler's answer is the whole of what the session then has to send, and opens
\* a file only for a page.
LEMMA PreparedKeeps ==
    ASSUME NEW s \in Sessions, s.uri \in {"page", "blob", "api", "post"},
           s.fd = NoFile, ~s.context, ~s.ws
    PROVE  /\ Prepared(s) \in Sessions /\ Coherent(Prepared(s))
           /\ Left(Prepared(s)) = Answer(s)
           /\ Prepared(s).content # <<>>
           /\ Prepared(s).uri = s.uri
           /\ Prepared(s).fd # NoFile => s.uri = "page" /\ FilesOpen < MaxFiles
<1> DEFINE p == Prepared(s)
           fd == IF s.uri # "page" THEN s.fd
                 ELSE IF FilesOpen < MaxFiles THEN FileChunks ELSE NoFile
<1>1. p = [s EXCEPT !.content = Header, !.borrowed = FALSE,
                    !.context = s.context \/ s.uri = "blob", !.fd = fd]
  BY DEF Prepared
<1>2. fd \in 0 .. NoFile
  BY PageProperties DEF Sessions
<1>3. fd # NoFile => s.uri = "page" /\ FilesOpen < MaxFiles /\ fd = FileChunks
  BY Zenon
<1> HIDE DEF p, fd
<1>4. Header \in Seq(Nat) /\ Header # <<>>
  BY DEF Header
<1>5. (s.context \/ s.uri = "blob") \in BOOLEAN
  BY Zenon
<1>6. p \in Sessions
  BY <1>1, <1>2, <1>4, <1>5 DEF Sessions
<1>7. /\ p.uri = s.uri /\ p.content = Header /\ p.fd = fd /\ p.borrowed = FALSE
      /\ p.context = (s.context \/ s.uri = "blob") /\ p.ws = s.ws
  BY <1>1 DEF Sessions
<1>8. Coherent(p)
  BY <1>3, <1>7, Zenon DEF Coherent, Empty, None
<1>9. Left(p) = Answer(s)
  <2>1. fd = FileChunks <=> fd # NoFile
    BY <1>3, PageProperties
  <2>2. SubSeq(Page, FileChunks + 1 - FileChunks, FileChunks) = Page
    <3>1. FileChunks + 1 - FileChunks = 1
      BY PageProperties
    <3> QED BY <3>1, PageProperties, SubSeqFull
  <2>3. FileRest(p) = IF p.fd = FileChunks THEN Page ELSE <<>>
    BY <1>7, <2>1, <2>2 DEF FileRest
  <2>4. ContextRest(p) = IF s.uri = "blob" THEN Blob ELSE <<>>
    BY <1>7, Zenon DEF ContextRest
  <2>5. Left(p) = (p.content \o FileRest(p)) \o ContextRest(p)
    BY DEF Left, FileRest, ContextRest
  <2> QED BY <1>7, <2>3, <2>4, <2>5 DEF Answer, p
<1> QED BY <1>3, <1>4, <1>6, <1>7, <1>8, <1>9 DEF p

-------------------------------------------------------------------------------
(* The invariant.  NothingLost rests on what a session is between callbacks, and *)
(* the counts on which connections have one.                                     *)

Types ==
    /\ tcp \in [Conns -> {"none", "open", "unserved"}]
    /\ cbs \in [Conns -> {"none", "session", "retry"}]
    /\ sess \in [Conns -> Sessions]
    /\ count \in 0 .. MaxClients
    /\ lost \in Nat /\ lostFiles \in Nat /\ lostFiles <= lost
    /\ unacked \in [Conns -> Nat] /\ asked \in [Conns -> 0 .. MaxRequests]
    /\ pieces \in [Conns -> 0 .. 2]
    /\ out \in [Conns -> Seq(Nat)] /\ expected \in [Conns -> Seq(Nat)]

FilesLimited == FilesOpen <= MaxFiles

Coherence ==
    \A c \in Conns :
        /\ Coherent(sess[c])
        /\ cbs[c] # "session" => sess[c] = Fresh
        /\ pieces[c] > 0 => sess[c].uri \in {None, "post"}
        /\ tcp[c] = "none" => cbs[c] = "none" /\ out[c] = <<>> /\ expected[c] = <<>>

IInv == Types /\ FilesLimited /\ CountIsSessions /\ Coherence /\ NothingLost

Served == {c \in Conns : cbs[c] = "session"}
Opened == {c \in Conns : sess[c].fd # NoFile}

LEMMA FreshSession == Fresh \in Sessions /\ Coherent(Fresh) /\ Left(Fresh) = <<>>
                        /\ Fresh.fd = NoFile /\ Fresh.uri = None
<1>1. /\ Fresh.uri = None /\ Fresh.content = <<>> /\ Fresh.fd = NoFile
      /\ Fresh.context = FALSE /\ Fresh.borrowed = FALSE /\ Fresh.ws = FALSE
  BY DEF Fresh
<1>2. Fresh \in Sessions
  <2>1. NoFile \in 0 .. NoFile /\ 0 \in 0 .. MaxRetries
    BY PageProperties, HttpAssumption DEF HttpAssumption
  <2> QED BY <2>1 DEF Fresh, Sessions
<1>3. Coherent(Fresh)
  BY <1>1, PageProperties, Zenon DEF Coherent, Empty
<1>4. Left(Fresh) = <<>>
  BY <1>1 DEF Left
<1> QED BY <1>1, <1>2, <1>3, <1>4

LEMMA Counts ==
    /\ IsFiniteSet(Conns) /\ IsFiniteSet(Served) /\ IsFiniteSet(Opened)
    /\ Cardinality(Served) \in Nat /\ Cardinality(Opened) \in Nat
<1>1. IsFiniteSet(Conns)
  BY HttpAssumption DEF HttpAssumption
<1>2. Served \in SUBSET Conns /\ Opened \in SUBSET Conns
  BY DEF Served, Opened
<1> QED BY <1>1, <1>2, FS_Subset, FS_CardinalityType

LEMMA FilesCounted ==
    /\ FilesOpen = Cardinality(Opened) + lostFiles
    /\ FilesOpen' = Cardinality(Opened') + lostFiles'
BY Zenon DEF FilesOpen, Opened

\* A connection goes on with another state of its session.
LEMMA GoingOn ==
    ASSUME IInv, NEW c \in Conns, cbs[c] = "session",
           NEW s \in Sessions, Coherent(s), NEW written \in Seq(Nat), NEW left \in Nat,
           GoesOn(c, s, written, left),
           s.fd # NoFile => sess[c].fd # NoFile \/ FilesOpen < MaxFiles,
           expected' \in [Conns -> Seq(Nat)],
           \A d \in Conns \ {c} : expected'[d] = expected[d],
           expected'[c] = out[c] \o (written \o Left(s)),
           asked' \in [Conns -> 0 .. MaxRequests],
           pieces' \in [Conns -> 0 .. 2],
           \A d \in Conns \ {c} : pieces'[d] = pieces[d],
           pieces'[c] > 0 => s.uri \in {None, "post"},
           UNCHANGED <<tcp, cbs, server>>
    PROVE  IInv'
<1> USE DEF IInv
<1>1. Types'
  <2>1. unacked' \in [Conns -> Nat]
    <3>1. left + Len(written) \in Nat
      BY LenProperties
    <3> QED BY <3>1 DEF Types, GoesOn
  <2>2. out' \in [Conns -> Seq(Nat)]
    <3>1. out[c] \o written \in Seq(Nat)
      BY ConcatProperties DEF Types
    <3> QED BY <3>1 DEF Types, GoesOn
  <2>3. sess' \in [Conns -> Sessions]
    BY DEF Types, GoesOn
  <2> QED BY <2>1, <2>2, <2>3 DEF Types, server
<1>2. sess'[c] = s /\ out'[c] = out[c] \o written
  BY DEF Types, GoesOn
<1>3. \A d \in Conns \ {c} : sess'[d] = sess[d] /\ out'[d] = out[d]
  BY DEF Types, GoesOn
<1>4. FilesLimited'
  <2> USE Counts
  <2>0. /\ lostFiles' = lostFiles /\ lostFiles \in Nat /\ MaxFiles \in Nat
        /\ Cardinality(Opened) + lostFiles <= MaxFiles
    BY FilesCounted, HttpAssumption DEF FilesLimited, server, Types, HttpAssumption
  <2>1. CASE sess[c].fd # NoFile \/ s.fd = NoFile
    <3>1. Opened' \in SUBSET Opened
      BY <1>2, <1>3, <2>1 DEF Opened
    <3>2. Cardinality(Opened') <= Cardinality(Opened) /\ Cardinality(Opened') \in Nat
      BY <3>1, Counts, FS_Subset, FS_CardinalityType
    <3>3. Cardinality(Opened') + lostFiles' <= MaxFiles
      BY <2>0, <3>2
    <3> QED BY <3>3, FilesCounted DEF FilesLimited
  <2>2. CASE s.fd # NoFile /\ sess[c].fd = NoFile
    <3>1. Opened' = Opened \union {c}
      BY <1>2, <1>3, <2>2 DEF Opened
    <3>2. Cardinality(Opened') = Cardinality(Opened) + 1
      <4>1. c \notin Opened
        BY <2>2 DEF Opened
      <4> QED BY <3>1, <4>1, FS_AddElement
    <3>3. FilesOpen < MaxFiles
      BY <2>2
    <3>4. Cardinality(Opened') + lostFiles' <= MaxFiles
      BY <2>0, <3>2, <3>3, FilesCounted
    <3> QED BY <3>4, FilesCounted DEF FilesLimited
  <2> QED BY <2>1, <2>2
<1>5. CountIsSessions'
  BY DEF CountIsSessions, server
<1>6. Coherence'
  <2> SUFFICES ASSUME NEW d \in Conns
               PROVE  /\ Coherent(sess'[d])
                      /\ cbs'[d] # "session" => sess'[d] = Fresh
                      /\ pieces'[d] > 0 => sess'[d].uri \in {None, "post"}
                      /\ tcp'[d] = "none" =>
                            cbs'[d] = "none" /\ out'[d] = <<>> /\ expected'[d] = <<>>
    BY DEF Coherence, Coherent, Empty
  <2>1. CASE d = c
    BY <1>2, <2>1 DEF Coherence
  <2>2. CASE d # c
    BY <1>3, <2>2 DEF Coherence
  <2> QED BY <2>1, <2>2
<1>7. NothingLost'
  <2> SUFFICES ASSUME NEW d \in Conns, cbs'[d] = "session"
               PROVE  expected'[d] = out'[d] \o Left(sess'[d])
    BY DEF NothingLost, Left
  <2>1. CASE d = c
    <3>1. out[c] \in Seq(Nat) /\ Left(s) \in Seq(Nat)
      BY RestTypes DEF Types
    <3>2. (out[c] \o written) \o Left(s) = out[c] \o (written \o Left(s))
      BY <3>1, Associative
    <3> QED BY <1>2, <2>1, <3>2
  <2>2. CASE d # c
    BY <1>3, <2>2 DEF NothingLost
  <2> QED BY <2>1, <2>2
<1> QED BY <1>1, <1>4, <1>5, <1>6, <1>7

-------------------------------------------------------------------------------
(* The ends of a connection.                                                   *)

\* A restart leaves nothing.
LEMMA Resetting == Reset => IInv'
<1> SUFFICES ASSUME Reset PROVE IInv'
  OBVIOUS
<1> USE DEF Reset
<1>1. /\ \A c \in Conns : sess'[c] = Fresh /\ cbs'[c] = "none" /\ pieces'[c] = 0
      /\ \A c \in Conns : out'[c] = <<>> /\ expected'[c] = <<>>
  OBVIOUS
<1>2. Types'
  <2>1. 0 \in 0 .. MaxClients /\ 0 \in 0 .. MaxRequests
    BY HttpAssumption DEF HttpAssumption
  <2> QED BY <2>1, FreshSession DEF Types
<1>3. FilesLimited'
  <2>1. Opened' = {}
    BY <1>1, FreshSession DEF Opened
  <2>2. Cardinality(Opened') = 0
    BY <2>1, FS_EmptySet
  <2>3. Cardinality(Opened') + lostFiles' <= MaxFiles
    BY <2>2, HttpAssumption DEF HttpAssumption
  <2> QED BY <2>3, FilesCounted DEF FilesLimited
<1>4. CountIsSessions'
  <2>1. {c \in Conns : cbs'[c] = "session"} = {}
    BY <1>1
  <2>2. Cardinality({c \in Conns : cbs'[c] = "session"}) = 0
    BY <2>1, FS_EmptySet
  <2>3. count' = 0 /\ lost' = 0
    OBVIOUS
  <2> QED BY <2>2, <2>3 DEF CountIsSessions
<1>5. Coherence' /\ NothingLost'
  <2>1. NothingLost'
    BY <1>1 DEF NothingLost
  <2>2. Coherence'
    <3> SUFFICES ASSUME NEW d \in Conns
                 PROVE  /\ Coherent(sess'[d])
                        /\ cbs'[d] # "session" => sess'[d] = Fresh
                        /\ pieces'[d] > 0 => sess'[d].uri \in {None, "post"}
                        /\ tcp'[d] = "none" =>
                              cbs'[d] = "none" /\ out'[d] = <<>> /\ expected'[d] = <<>>
      BY DEF Coherence, Coherent, Empty
    <3> QED BY <1>1, FreshSession
  <2> QED BY <2>1, <2>2
<1> QED BY <1>2, <1>3, <1>4, <1>5 DEF IInv

\* The connection has no session any more.
Detached(c) ==
    /\ sess' = [sess EXCEPT ![c] = Fresh]
    /\ tcp' \in [Conns -> {"none", "open", "unserved"}]
    /\ cbs' \in [Conns -> {"none", "session", "retry"}]
    /\ cbs'[c] # "session"
    /\ unacked' \in [Conns -> Nat] /\ asked' \in [Conns -> 0 .. MaxRequests]
    /\ pieces' \in [Conns -> 0 .. 2]
    /\ out' \in [Conns -> Seq(Nat)] /\ expected' \in [Conns -> Seq(Nat)]
    /\ \A d \in Conns \ {c} : /\ tcp'[d] = tcp[d] /\ cbs'[d] = cbs[d]
                              /\ pieces'[d] = pieces[d]
                              /\ out'[d] = out[d] /\ expected'[d] = expected[d]
    /\ tcp'[c] = "none" => cbs'[c] = "none" /\ out'[c] = <<>> /\ expected'[c] = <<>>

LEMMA GoneDetached ==
    ASSUME Types, NEW c \in Conns, Gone(c)
    PROVE  Detached(c)
<1> USE DEF Types, Gone
<1>1. 0 \in 0 .. MaxRequests
  BY HttpAssumption DEF HttpAssumption
<1>2. tcp'[c] = "none" /\ cbs'[c] = "none" /\ out'[c] = <<>> /\ expected'[c] = <<>>
  OBVIOUS
<1>3. /\ tcp' \in [Conns -> {"none", "open", "unserved"}]
      /\ cbs' \in [Conns -> {"none", "session", "retry"}]
  OBVIOUS
<1>4. /\ unacked' \in [Conns -> Nat] /\ asked' \in [Conns -> 0 .. MaxRequests]
      /\ pieces' \in [Conns -> 0 .. 2]
  BY <1>1
<1>5. out' \in [Conns -> Seq(Nat)] /\ expected' \in [Conns -> Seq(Nat)]
  OBVIOUS
<1>6. \A d \in Conns \ {c} : /\ tcp'[d] = tcp[d] /\ cbs'[d] = cbs[d]
                              /\ pieces'[d] = pieces[d]
                              /\ out'[d] = out[d] /\ expected'[d] = expected[d]
  OBVIOUS
<1> QED BY <1>2, <1>3, <1>4, <1>5, <1>6 DEF Detached

LEMMA FailedDetached ==
    ASSUME Types, Coherence, NEW c \in Conns, cbs[c] = "session", NEW s, CloseFails(c, s)
    PROVE  Detached(c)
<1>1. tcp[c] # "none"
  BY DEF Coherence
<1>2. /\ tcp' = tcp /\ unacked' = unacked /\ asked' = asked /\ pieces' = pieces
      /\ out' = out /\ expected' = expected
      /\ cbs' = [cbs EXCEPT ![c] = "retry"] /\ sess' = [sess EXCEPT ![c] = Fresh]
  BY DEF CloseFails, client, stream
<1> QED BY <1>1, <1>2 DEF Detached, Types

\* A session that ends is counted in count no more, or in lost.
LEMMA Ending ==
    ASSUME IInv, NEW c \in Conns, Detached(c),
           count' \in 0 .. MaxClients, lost' \in Nat, lostFiles' \in Nat,
           cbs[c] = "session" => count' - lost' = count - lost - 1,
           cbs[c] # "session" => count' - lost' = count - lost,
           lost' >= lost,
           lostFiles' = lostFiles \/
              (lost' = lost + 1 /\ lostFiles' = lostFiles + 1 /\ sess[c].fd # NoFile)
    PROVE  IInv'
<1> USE DEF IInv, Detached
<1>1. /\ sess'[c] = Fresh
      /\ \A d \in Conns \ {c} : sess'[d] = sess[d]
  BY DEF Types
<1>2. Types'
  <2>1. sess' \in [Conns -> Sessions]
    BY FreshSession DEF Types
  <2>2. lostFiles' <= lost'
    BY DEF Types
  <2> QED BY <2>1, <2>2 DEF Types
<1>3. FilesLimited'
  <2>0. /\ lostFiles \in Nat /\ MaxFiles \in Nat
        /\ Cardinality(Opened) + lostFiles <= MaxFiles
    BY FilesCounted, HttpAssumption DEF FilesLimited, Types, HttpAssumption
  <2>1. Opened' = Opened \ {c}
    BY <1>1, FreshSession DEF Opened
  <2>2. /\ Cardinality(Opened') = IF c \in Opened THEN Cardinality(Opened) - 1
                                  ELSE Cardinality(Opened)
        /\ Cardinality(Opened) \in Nat
    BY <2>1, Counts, FS_RemoveElement
  <2>3. sess[c].fd # NoFile => c \in Opened
    BY DEF Opened
  <2>4. Cardinality(Opened') + lostFiles' <= MaxFiles
    BY <2>0, <2>2, <2>3
  <2> QED BY <2>4, FilesCounted DEF FilesLimited
<1>4. CountIsSessions'
  <2>0. count = Cardinality(Served) + lost /\ count \in Nat /\ lost \in Nat
    BY DEF CountIsSessions, Served, Types
  <2>1. Served' = Served \ {c}
    BY DEF Served
  <2>2. /\ Cardinality(Served') = IF c \in Served THEN Cardinality(Served) - 1
                                  ELSE Cardinality(Served)
        /\ Cardinality(Served) \in Nat
    BY <2>1, Counts, FS_RemoveElement
  <2>3. c \in Served <=> cbs[c] = "session"
    BY DEF Served
  <2>4. count' = Cardinality(Served') + lost'
    BY <2>0, <2>2, <2>3
  <2> QED BY <2>4 DEF CountIsSessions, Served
<1>5. Coherence'
  <2> SUFFICES ASSUME NEW d \in Conns
               PROVE  /\ Coherent(sess'[d])
                      /\ cbs'[d] # "session" => sess'[d] = Fresh
                      /\ pieces'[d] > 0 => sess'[d].uri \in {None, "post"}
                      /\ tcp'[d] = "none" =>
                            cbs'[d] = "none" /\ out'[d] = <<>> /\ expected'[d] = <<>>
    BY DEF Coherence, Coherent, Empty
  <2>1. CASE d = c
    BY <1>1, <2>1, FreshSession
  <2>2. CASE d # c
    <3>1. /\ sess'[d] = sess[d] /\ cbs'[d] = cbs[d] /\ tcp'[d] = tcp[d]
          /\ pieces'[d] = pieces[d] /\ out'[d] = out[d] /\ expected'[d] = expected[d]
      BY <1>1, <2>2
    <3> QED BY <3>1 DEF Coherence
  <2> QED BY <2>1, <2>2
<1>6. NothingLost'
  <2> SUFFICES ASSUME NEW d \in Conns, cbs'[d] = "session"
               PROVE  expected'[d] = out'[d] \o Left(sess'[d])
    BY DEF NothingLost, Left
  <2> QED BY <1>1 DEF NothingLost
<1> QED BY <1>2, <1>3, <1>4, <1>5, <1>6

LEMMA Closing ==
    ASSUME IInv, NEW c \in Conns, cbs[c] = "session", NEW s,
           s.fd # NoFile => sess[c].fd # NoFile, Close(c, s)
    PROVE  IInv'
<1>0. /\ count \in 0 .. MaxClients /\ count \in Nat /\ lost \in Nat /\ lostFiles \in Nat
      /\ count >= 1 + lost
  <2>1. count = Cardinality(Served) + lost /\ count \in 0 .. MaxClients
        /\ lost \in Nat /\ lostFiles \in Nat
    BY DEF IInv, CountIsSessions, Served, Types
  <2>2. c \in Served
    BY DEF Served
  <2>3. Cardinality(Served) # 0 /\ Cardinality(Served) \in Nat
    BY <2>2, Counts, FS_EmptySet
  <2> QED BY <2>1, <2>3
<1>1. CASE Gone(c) /\ count' = LessOne(count) /\ UNCHANGED <<lost, lostFiles>>
  <2>1. count' = count - 1 /\ count' \in 0 .. MaxClients
    BY <1>0, <1>1, HttpAssumption DEF LessOne, HttpAssumption
  <2>2. Detached(c)
    BY <1>1, GoneDetached DEF IInv
  <2> QED BY <1>0, <1>1, <2>1, <2>2, Ending
<1>2. CASE FreesWrongly(s) /\ Reset
  BY <1>2, Resetting
<1>3. CASE CloseFails(c, s)
  <2>1. lostFiles' = lostFiles \/
              (lost' = lost + 1 /\ lostFiles' = lostFiles + 1 /\ sess[c].fd # NoFile)
    BY <1>0, <1>3 DEF CloseFails
  <2>2. lostFiles' \in Nat /\ lost' = lost + 1 /\ count' = count
    BY <1>0, <1>3 DEF CloseFails
  <2>3. Detached(c)
    BY <1>3, FailedDetached DEF IInv
  <2> QED BY <1>0, <2>1, <2>2, <2>3, Ending
<1> QED BY <1>1, <1>2, <1>3 DEF Close, CloseSucceeds

LEMMA EndsIInv ==
    ASSUME IInv, NEW c \in Conns, Ends(c)
    PROVE  IInv'
<1>1. CASE cbs[c] = "session" /\ Close(c, sess[c])
  BY <1>1, Closing
<1>2. CASE tcp[c] # "none" /\ cbs[c] # "session" /\ Gone(c) /\ UNCHANGED server
  <2>1. count \in 0 .. MaxClients /\ lost \in Nat /\ lostFiles \in Nat
    BY DEF IInv, Types
  <2>2. count' = count /\ lost' = lost /\ lostFiles' = lostFiles
    BY <1>2 DEF server
  <2>3. Detached(c)
    BY <1>2, GoneDetached DEF IInv
  <2> QED BY <1>2, <2>1, <2>2, <2>3, Ending
<1> QED BY <1>1, <1>2 DEF Ends

-------------------------------------------------------------------------------
(* The other callbacks.                                                        *)

LEMMA AcceptIInv ==
    ASSUME IInv, NEW c \in Conns, Accept(c) \/ AcceptTooMany(c)
    PROVE  IInv'
<1> USE DEF IInv
<1>1. cbs[c] = "none" /\ sess[c] = Fresh /\ out[c] = <<>> /\ expected[c] = <<>>
  BY DEF Accept, AcceptTooMany, Coherence
<1>2. CASE Accept(c)
  <2> USE <1>2 DEF Accept, client, stream
  <2>1. Types'
    BY HttpAssumption DEF Types, HttpAssumption
  <2>2. FilesLimited'
    <3>1. Opened' = Opened
      BY DEF Opened
    <3>2. lostFiles' = lostFiles
      OBVIOUS
    <3> QED BY <3>1, <3>2, FilesCounted DEF FilesLimited
  <2>3. CountIsSessions'
    <3>1. Served' = Served \union {c} /\ c \notin Served
      BY <1>1 DEF Served, Types
    <3>2. Cardinality(Served') = Cardinality(Served) + 1
      BY <3>1, Counts, FS_AddElement
    <3>3. count' = Cardinality(Served') + lost'
      BY <3>2, Counts DEF CountIsSessions, Served, Types
    <3> QED BY <3>3 DEF CountIsSessions, Served
  <2>4. Coherence'
    <3> SUFFICES ASSUME NEW d \in Conns
                 PROVE  /\ Coherent(sess'[d])
                        /\ cbs'[d] # "session" => sess'[d] = Fresh
                        /\ pieces'[d] > 0 => sess'[d].uri \in {None, "post"}
                        /\ tcp'[d] = "none" =>
                              cbs'[d] = "none" /\ out'[d] = <<>> /\ expected'[d] = <<>>
      BY DEF Coherence, Coherent, Empty
    <3> QED BY <1>1 DEF Coherence, Types
  <2>5. NothingLost'
    <3> SUFFICES ASSUME NEW d \in Conns, cbs'[d] = "session"
                 PROVE  expected'[d] = out'[d] \o Left(sess'[d])
      BY DEF NothingLost, Left
    <3>1. CASE d = c
      <4>1. <<>> = <<>> \o <<>>
        OBVIOUS
      <4> QED BY <1>1, <3>1, <4>1, FreshSession
    <3>2. CASE d # c
      BY <3>2 DEF NothingLost, Types
    <3> QED BY <3>1, <3>2
  <2> QED BY <2>1, <2>2, <2>3, <2>4, <2>5
<1>3. CASE AcceptTooMany(c)
  <2> USE <1>3 DEF AcceptTooMany, server, client, stream
  <2>1. Types'
    BY DEF Types
  <2>2. FilesLimited'
    BY DEF FilesLimited, FilesOpen
  <2>3. CountIsSessions' /\ NothingLost'
    BY DEF CountIsSessions, NothingLost, Left
  <2>4. Coherence'
    <3> SUFFICES ASSUME NEW d \in Conns
                 PROVE  /\ Coherent(sess'[d])
                        /\ cbs'[d] # "session" => sess'[d] = Fresh
                        /\ pieces'[d] > 0 => sess'[d].uri \in {None, "post"}
                        /\ tcp'[d] = "none" =>
                              cbs'[d] = "none" /\ out'[d] = <<>> /\ expected'[d] = <<>>
      BY DEF Coherence, Coherent, Empty
    <3> QED BY DEF Coherence, Types
  <2> QED BY <2>1, <2>2, <2>3, <2>4
<1> QED BY <1>2, <1>3

\* A session changes, and has the same left to send.
LEMMA Quiet ==
    ASSUME IInv, NEW c \in Conns, cbs[c] = "session",
           NEW s \in Sessions, Coherent(s), Left(s) = Left(sess[c]), s.fd = sess[c].fd,
           sess' = [sess EXCEPT ![c] = s],
           asked' \in [Conns -> 0 .. MaxRequests],
           pieces' \in [Conns -> 0 .. 2],
           \A d \in Conns \ {c} : pieces'[d] = pieces[d],
           pieces'[c] > 0 => s.uri \in {None, "post"},
           UNCHANGED <<tcp, cbs, server, unacked, stream>>
    PROVE  IInv'
<1>1. /\ out \in [Conns -> Seq(Nat)] /\ unacked \in [Conns -> Nat]
      /\ expected \in [Conns -> Seq(Nat)]
  BY DEF IInv, Types
<1>2. out[c] \o <<>> = out[c] /\ <<>> \in Seq(Nat) /\ Len(<<>>) = 0
  BY <1>1, ConcatEmptySeq
<1>3. GoesOn(c, s, <<>>, unacked[c])
  BY <1>1, <1>2 DEF GoesOn, stream
<1>4. expected'[c] = out[c] \o (<<>> \o Left(s))
  <2>1. <<>> \o Left(s) = Left(s)
    BY RestTypes, ConcatEmptySeq
  <2>2. expected[c] = out[c] \o Left(sess[c])
    BY DEF IInv, NothingLost
  <2> QED BY <2>1, <2>2 DEF stream
<1>5. /\ expected' \in [Conns -> Seq(Nat)]
      /\ \A d \in Conns \ {c} : expected'[d] = expected[d]
  BY <1>1 DEF stream
<1>6. s.fd # NoFile => sess[c].fd # NoFile
  OBVIOUS
<1>7. UNCHANGED <<tcp, cbs, server>>
  OBVIOUS
<1> QED BY <1>1, <1>2, <1>3, <1>4, <1>5, <1>6, <1>7, GoingOn

\* A session that listens for a request has nothing to send.
LEMMA Listening ==
    ASSUME IInv, NEW c \in Conns, NEW kind, Asks(c, kind), Heard(c)
    PROVE  /\ sess[c] \in Sessions /\ Empty(sess[c]) /\ ~sess[c].ws /\ ~sess[c].borrowed
           /\ cbs[c] = "session" /\ pieces[c] = 0 /\ kind \in Kinds
           /\ expected[c] = out[c] /\ out[c] \in Seq(Nat)
           /\ asked' \in [Conns -> 0 .. MaxRequests]
<1>1. sess[c] \in Sessions /\ Coherent(sess[c]) /\ sess[c].uri = None
  BY DEF IInv, Types, Coherence, Heard
<1>2. Empty(sess[c])
  BY <1>1 DEF Coherent
<1>3. ~sess[c].ws
  BY <1>1, Zenon DEF Asks, Coherent
<1>4. ~sess[c].borrowed
  BY <1>1, <1>2, Zenon DEF Empty, Coherent
<1>5. Left(sess[c]) = <<>>
  BY <1>2 DEF Left, Empty
<1>6. expected[c] = out[c] /\ out[c] \in Seq(Nat)
  <2>1. out[c] \in Seq(Nat)
    BY DEF IInv, Types
  <2>2. expected[c] = out[c] \o Left(sess[c])
    BY DEF IInv, NothingLost, Asks
  <2> QED BY <1>5, <2>1, <2>2, ConcatEmptySeq
<1>7. asked' \in [Conns -> 0 .. MaxRequests]
  BY HttpAssumption DEF Asks, IInv, Types, HttpAssumption
<1>8. pieces[c] = 0
  BY DEF Asks
<1> QED BY <1>1, <1>2, <1>3, <1>4, <1>6, <1>7, <1>8 DEF Asks

LEMMA BusyIInv ==
    ASSUME IInv, NEW c \in Conns, RecvBusy(c)
    PROVE  IInv'
<1> DEFINE s == [sess[c] EXCEPT !.error = TRUE]
<1>0. sess[c] \in Sessions /\ Coherent(sess[c])
  BY DEF IInv, Types, Coherence
<1>1. /\ s.uri = sess[c].uri /\ s.content = sess[c].content /\ s.fd = sess[c].fd
      /\ s.context = sess[c].context /\ s.borrowed = sess[c].borrowed
      /\ s.ws = sess[c].ws /\ s.connection = sess[c].connection
  BY <1>0 DEF Sessions
<1>2. s \in Sessions
  BY <1>0 DEF Sessions
<1>3. sess' = [sess EXCEPT ![c] = s]
  BY DEF RecvBusy
<1> HIDE DEF s
<1>4. Coherent(s)
  BY <1>0, <1>1, Zenon DEF Coherent, Empty
<1>5. Left(s) = Left(sess[c])
  BY <1>1, Zenon DEF Left
<1>6. /\ cbs[c] = "session" /\ pieces[c] = 0 /\ pieces' = pieces
      /\ asked' \in [Conns -> 0 .. MaxRequests]
      /\ UNCHANGED <<tcp, cbs, server, unacked, stream>>
  BY HttpAssumption DEF RecvBusy, Asks, IInv, Types, HttpAssumption
<1>7. /\ pieces' \in [Conns -> 0 .. 2] /\ ~(pieces'[c] > 0)
      /\ \A d \in Conns \ {c} : pieces'[d] = pieces[d]
  BY <1>6 DEF IInv, Types
<1>8. s.fd = sess[c].fd
  BY <1>1
<1> QED BY <1>2, <1>3, <1>4, <1>5, <1>6, <1>7, <1>8, Quiet

LEMMA UnknownIInv ==
    ASSUME IInv, NEW c \in Conns, RecvUnknown(c)
    PROVE  IInv'
<1>1. PICK conn \in {"CLOSE", "KEEP_ALIVE"} : sess' = [sess EXCEPT ![c].connection = conn]
  BY DEF RecvUnknown
<1> DEFINE s == [sess[c] EXCEPT !.connection = conn]
<1>2. /\ sess[c] \in Sessions /\ Empty(sess[c]) /\ ~sess[c].ws /\ ~sess[c].borrowed
      /\ cbs[c] = "session" /\ pieces[c] = 0
      /\ asked' \in [Conns -> 0 .. MaxRequests]
  BY Listening DEF RecvUnknown
<1>3. /\ s.uri = sess[c].uri /\ s.content = sess[c].content /\ s.fd = sess[c].fd
      /\ s.context = sess[c].context /\ s.borrowed = sess[c].borrowed
      /\ s.ws = sess[c].ws
  BY <1>2 DEF Sessions
<1>4. s \in Sessions
  BY <1>2 DEF Sessions
<1>5. sess' = [sess EXCEPT ![c] = s]
  BY <1>1
<1> HIDE DEF s
<1>6. Coherent(s)
  BY <1>2, <1>3, Zenon DEF Coherent, Empty
<1>7. Left(s) = Left(sess[c])
  BY <1>3, Zenon DEF Left
<1>8. pieces' = pieces /\ UNCHANGED <<tcp, cbs, server, unacked, stream>>
  BY DEF RecvUnknown
<1>9. /\ pieces' \in [Conns -> 0 .. 2] /\ ~(pieces'[c] > 0)
      /\ \A d \in Conns \ {c} : pieces'[d] = pieces[d]
  BY <1>2, <1>8 DEF IInv, Types
<1>10. s.fd = sess[c].fd
  BY <1>3
<1> QED BY <1>2, <1>4, <1>5, <1>6, <1>7, <1>8, <1>9, <1>10, Quiet

LEMMA PostIInv ==
    ASSUME IInv, NEW c \in Conns, RecvPost(c)
    PROVE  IInv'
<1>1. PICK conn \in {"CLOSE", "KEEP_ALIVE"} :
         sess' = [sess EXCEPT ![c].uri = "post", ![c].connection = conn]
  BY DEF RecvPost
<1> DEFINE s == [sess[c] EXCEPT !.uri = "post", !.connection = conn]
<1>2. /\ sess[c] \in Sessions /\ Empty(sess[c]) /\ ~sess[c].ws /\ ~sess[c].borrowed
      /\ cbs[c] = "session" /\ "post" \in Kinds
      /\ asked' \in [Conns -> 0 .. MaxRequests]
  BY Listening DEF RecvPost
<1>3. /\ s.uri = "post" /\ s.content = sess[c].content /\ s.fd = sess[c].fd
      /\ s.context = sess[c].context /\ s.borrowed = sess[c].borrowed
      /\ s.ws = sess[c].ws
  BY <1>2 DEF Sessions
<1>4. s \in Sessions
  BY <1>2 DEF Sessions
<1>5. sess' = [sess EXCEPT ![c] = s]
  BY <1>1, <1>2 DEF IInv, Types
<1> HIDE DEF s
<1>6. Coherent(s)
  BY <1>2, <1>3, Zenon DEF Coherent, Empty
<1>7. Left(s) = Left(sess[c])
  BY <1>3, Zenon DEF Left
<1>8. UNCHANGED <<tcp, cbs, server, unacked, stream>>
  BY DEF RecvPost
<1>9. pieces' \in [Conns -> 0 .. 2] /\ \A d \in Conns \ {c} : pieces'[d] = pieces[d]
  BY DEF RecvPost, IInv, Types
<1> QED BY <1>2, <1>3, <1>4, <1>5, <1>6, <1>7, <1>8, <1>9, Quiet

LEMMA GetIInv ==
    ASSUME IInv, NEW c \in Conns, RecvGet(c)
    PROVE  IInv'
<1>1. PICK kind \in {"page", "blob", "api"}, conn \in {"CLOSE", "KEEP_ALIVE"} :
         LET s == [sess[c] EXCEPT !.uri = kind, !.connection = conn] IN
         /\ Asks(c, kind) /\ Heard(c)
         /\ expected' = [expected EXCEPT ![c] = @ \o Answer(s)]
         /\ \E r \in Respond(Prepared(s)) : GoesOn(c, Settled(r), r.out, unacked[c])
  BY DEF RecvGet
<1> DEFINE s == [sess[c] EXCEPT !.uri = kind, !.connection = conn]
<1>2. /\ sess[c] \in Sessions /\ Empty(sess[c]) /\ ~sess[c].ws /\ ~sess[c].borrowed
      /\ cbs[c] = "session" /\ pieces[c] = 0 /\ kind \in Kinds
      /\ expected[c] = out[c] /\ out[c] \in Seq(Nat)
      /\ asked' \in [Conns -> 0 .. MaxRequests]
  BY <1>1, Listening
<1>3. /\ s \in Sessions /\ s.uri = kind /\ s.fd = NoFile /\ s.context = sess[c].context
      /\ s.ws = sess[c].ws
  BY <1>2 DEF Sessions, Empty
<1>4. ~s.context /\ ~s.ws
  BY <1>2, <1>3, Zenon DEF Empty
<1>5. PICK r \in Respond(Prepared(s)) : GoesOn(c, Settled(r), r.out, unacked[c])
  BY <1>1
<1>6. expected' = [expected EXCEPT ![c] = @ \o Answer(s)]
  BY <1>1
<1> HIDE DEF s
<1>7. /\ Prepared(s) \in Sessions /\ Coherent(Prepared(s))
      /\ Left(Prepared(s)) = Answer(s)
      /\ Prepared(s).fd # NoFile => FilesOpen < MaxFiles
  BY <1>3, <1>4, PreparedKeeps
<1>8. Kept(Prepared(s), r)
  BY <1>7, RespondKeeps
<1> DEFINE t == Settled(r)
<1>9. /\ t \in Sessions /\ Coherent(t) /\ r.out \in Seq(Nat)
      /\ r.out \o Left(t) = Answer(s)
      /\ t.fd # NoFile => FilesOpen < MaxFiles
  BY <1>7, <1>8, SettledKeeps DEF Kept
<1> HIDE DEF t
<1>10. expected' \in [Conns -> Seq(Nat)] /\ expected'[c] = out[c] \o (r.out \o Left(t))
       /\ \A d \in Conns \ {c} : expected'[d] = expected[d]
  <2>1. Answer(s) \in Seq(Nat)
    BY <1>7, RestTypes
  <2>2. expected[c] \o Answer(s) \in Seq(Nat)
    BY <1>2, <2>1, ConcatProperties
  <2> QED BY <1>2, <1>6, <1>9, <2>2 DEF IInv, Types
<1>11. /\ unacked[c] \in Nat /\ UNCHANGED <<tcp, cbs, server>>
       /\ pieces' \in [Conns -> 0 .. 2] /\ ~(pieces'[c] > 0)
       /\ \A d \in Conns \ {c} : pieces'[d] = pieces[d]
  BY <1>2 DEF RecvGet, IInv, Types
<1>12. GoesOn(c, t, r.out, unacked[c])
  BY <1>5 DEF t
<1> QED BY <1>2, <1>9, <1>10, <1>11, <1>12, GoingOn

\* The body of a POST is answered anew each time it is handled.
LEMMA BodyIInv ==
    ASSUME IInv, NEW c \in Conns, RecvBody(c)
    PROVE  IInv'
<1> DEFINE s == sess[c]
<1>0. /\ s \in Sessions /\ Coherent(s) /\ cbs[c] = "session" /\ pieces[c] \in 1 .. 2
      /\ s.uri \in {None, "post"} /\ out[c] \in Seq(Nat) /\ unacked[c] \in Nat
      /\ expected \in [Conns -> Seq(Nat)] /\ pieces \in [Conns -> 0 .. 2]
      /\ asked \in [Conns -> 0 .. MaxRequests]
  BY DEF RecvBody, IInv, Types, Coherence
<1>1. CASE s.uri # None /\ SaveFails
  BY <1>1, Resetting DEF SaveFails
<1>2. CASE BodyHandled(c)
  <2>1. /\ pieces' = [pieces EXCEPT ![c] = @ - 1]
        /\ UNCHANGED <<tcp, cbs, server, asked>>
    BY <1>2 DEF BodyHandled
  <2>2. /\ pieces' \in [Conns -> 0 .. 2] /\ pieces'[c] = pieces[c] - 1
        /\ \A d \in Conns \ {c} : pieces'[d] = pieces[d]
    BY <1>0, <2>1
  <2>3. asked' \in [Conns -> 0 .. MaxRequests]
    BY <1>0, <2>1
  <2>4. CASE s.uri = None /\ UNCHANGED <<sess, unacked, stream>>
    <3>1. sess' = [sess EXCEPT ![c] = s]
      BY <2>4 DEF IInv, Types
    <3>2. UNCHANGED <<tcp, cbs, server, unacked, stream>>
      BY <2>1, <2>4
    <3> QED BY <1>0, <2>2, <2>3, <3>1, <3>2, Quiet
  <2>5. CASE /\ s.uri # None
             /\ \E r \in Respond(Prepared(s)) :
                  IF pieces[c] > 1
                  THEN /\ GoesOn(c, Settled(r), r.out, unacked[c])
                       /\ expected' = [expected EXCEPT ![c] = out[c] \o Header]
                  ELSE \E r2 \in Respond(Prepared(Settled(r))) :
                         /\ GoesOn(c, Settled(r2), r.out \o r2.out, unacked[c])
                         /\ expected' =
                               [expected EXCEPT ![c] = out[c] \o r.out \o Header]
    <3>1. PICK r \in Respond(Prepared(s)) :
            IF pieces[c] > 1
            THEN /\ GoesOn(c, Settled(r), r.out, unacked[c])
                 /\ expected' = [expected EXCEPT ![c] = out[c] \o Header]
            ELSE \E r2 \in Respond(Prepared(Settled(r))) :
                   /\ GoesOn(c, Settled(r2), r.out \o r2.out, unacked[c])
                   /\ expected' = [expected EXCEPT ![c] = out[c] \o r.out \o Header]
      BY <2>5
    <3> DEFINE t == Settled(r)
    <3>2. s.uri = "post" /\ s.fd = NoFile /\ ~s.context /\ ~s.ws
      BY <1>0, <2>5, Zenon DEF Coherent
    <3> HIDE DEF s
    <3>3. /\ Prepared(s) \in Sessions /\ Coherent(Prepared(s))
          /\ Left(Prepared(s)) = Answer(s) /\ Prepared(s).content # <<>>
          /\ Prepared(s).uri = "post" /\ Prepared(s).fd = NoFile
      BY <1>0, <3>2, PreparedKeeps
    <3>4. Answer(s) = Header
      <4>1. Prepared(s).fd # FileChunks
        BY <3>3, PageProperties
      <4>2. Answer(s) = Header \o <<>> \o <<>>
        BY <3>2, <4>1 DEF Answer
      <4>3. Header \in Seq(Nat)
        BY DEF Header
      <4> QED BY <4>2, <4>3, ConcatEmptySeq
    <3>5. Kept(Prepared(s), r) /\ ~r.done
      BY <3>3, RespondKeeps, WriteGoesOn
    <3>6. /\ t \in Sessions /\ Coherent(t) /\ t.uri = "post" /\ t.fd = NoFile
          /\ r.out \in Seq(Nat) /\ r.out \o Left(t) = Header
      BY <3>3, <3>4, <3>5, SettledKeeps DEF Kept
    <3>7. ~t.context /\ ~t.ws
      BY <3>6, Zenon DEF Coherent
    <3>8. Header \in Seq(Nat)
      BY DEF Header
    <3> HIDE DEF t
    <3>9. CASE pieces[c] > 1
      <4>1. /\ GoesOn(c, t, r.out, unacked[c])
            /\ expected' = [expected EXCEPT ![c] = out[c] \o Header]
        BY <3>1, <3>9 DEF t
      <4>2. out[c] \o Header \in Seq(Nat)
        BY <1>0, <3>8, ConcatProperties
      <4>3. /\ expected' \in [Conns -> Seq(Nat)]
            /\ expected'[c] = out[c] \o (r.out \o Left(t))
            /\ \A d \in Conns \ {c} : expected'[d] = expected[d]
        BY <1>0, <3>6, <4>1, <4>2
      <4>4. t.fd # NoFile => sess[c].fd # NoFile \/ FilesOpen < MaxFiles
        BY <3>6
      <4>5. UNCHANGED <<tcp, cbs, server>>
        BY <2>1
      <4>6. t.uri \in {None, "post"}
        BY <3>6
      <4> QED BY <1>0, <2>2, <2>3, <3>6, <4>1, <4>3, <4>4, <4>5, <4>6, GoingOn
    <3>10. CASE ~(pieces[c] > 1)
      <4>1. PICK r2 \in Respond(Prepared(t)) :
              /\ GoesOn(c, Settled(r2), r.out \o r2.out, unacked[c])
              /\ expected' = [expected EXCEPT ![c] = out[c] \o r.out \o Header]
        BY <3>1, <3>10 DEF t
      <4>2. /\ Prepared(t) \in Sessions /\ Coherent(Prepared(t))
            /\ Left(Prepared(t)) = Answer(t) /\ Prepared(t).fd = NoFile
            /\ Prepared(t).uri = "post"
        BY <3>6, <3>7, PreparedKeeps
      <4>3. Answer(t) = Header
        <5>1. Prepared(t).fd # FileChunks
          BY <4>2, PageProperties
        <5>2. Answer(t) = Header \o <<>> \o <<>>
          BY <3>6, <5>1 DEF Answer
        <5> QED BY <3>8, <5>2, ConcatEmptySeq
      <4>4. Kept(Prepared(t), r2)
        BY <4>2, RespondKeeps
      <4> DEFINE u == Settled(r2)
      <4>5. /\ u \in Sessions /\ Coherent(u) /\ u.fd = NoFile /\ u.uri \in {None, "post"}
            /\ r2.out \in Seq(Nat) /\ r2.out \o Left(u) = Header
        BY <4>2, <4>3, <4>4, SettledKeeps DEF Kept
      <4>6. GoesOn(c, u, r.out \o r2.out, unacked[c])
        BY <4>1
      <4> HIDE DEF u
      <4>7. /\ r.out \o r2.out \in Seq(Nat) /\ Left(u) \in Seq(Nat)
            /\ out[c] \o r.out \in Seq(Nat) /\ (out[c] \o r.out) \o Header \in Seq(Nat)
        BY <1>0, <3>6, <3>8, <4>5, RestTypes, ConcatProperties
      <4>8. out[c] \o r.out \o Header = out[c] \o ((r.out \o r2.out) \o Left(u))
        <5>1. (out[c] \o r.out) \o Header = out[c] \o (r.out \o (r2.out \o Left(u)))
          <6>1. out[c] \in Seq(Nat)
            BY <1>0
          <6>2. (out[c] \o r.out) \o Header = out[c] \o (r.out \o Header)
            BY <3>6, <3>8, <6>1, Associative
          <6> QED BY <4>5, <6>2
        <5>2. r.out \o (r2.out \o Left(u)) = (r.out \o r2.out) \o Left(u)
          BY <3>6, <4>5, <4>7, Associative
        <5> QED BY <5>1, <5>2
      <4>9. /\ expected' \in [Conns -> Seq(Nat)]
            /\ expected'[c] = out[c] \o ((r.out \o r2.out) \o Left(u))
            /\ \A d \in Conns \ {c} : expected'[d] = expected[d]
        BY <1>0, <4>1, <4>7, <4>8
      <4>10. u.fd # NoFile => sess[c].fd # NoFile \/ FilesOpen < MaxFiles
        BY <4>5
      <4>11. UNCHANGED <<tcp, cbs, server>>
        BY <2>1
      <4> QED BY <1>0, <2>2, <2>3, <4>5, <4>6, <4>7, <4>9, <4>10, <4>11, GoingOn
    <3> QED BY <3>9, <3>10
  <2> QED BY <1>2, <2>4, <2>5 DEF BodyHandled
<1> QED BY <1>1, <1>2 DEF RecvBody

\* What a websocket session sends is appended to its buffer.
LEMMA UpgradeIInv ==
    ASSUME IInv, NEW c \in Conns, RecvUpgrade(c)
    PROVE  IInv'
<1> DEFINE s == [sess[c] EXCEPT !.uri = "ws", !.connection = "UPGRADE", !.ws = TRUE,
                                !.content = @ \o Header]
<1>1. /\ Asks(c, "ws") /\ Heard(c) /\ expected' = [expected EXCEPT ![c] = @ \o Header]
      /\ UNCHANGED <<tcp, cbs, server, pieces>>
  BY DEF RecvUpgrade
<1>2. PICK r \in Respond(s) : GoesOn(c, Settled(r), r.out, unacked[c])
  BY DEF RecvUpgrade
<1>3. /\ sess[c] \in Sessions /\ Empty(sess[c]) /\ ~sess[c].ws /\ ~sess[c].borrowed
      /\ cbs[c] = "session" /\ pieces[c] = 0 /\ "ws" \in Kinds
      /\ expected[c] = out[c] /\ out[c] \in Seq(Nat)
      /\ asked' \in [Conns -> 0 .. MaxRequests]
  BY <1>1, Listening
<1>4. Header \in Seq(Nat) /\ Header # <<>> /\ sess[c].content \o Header = Header
  BY <1>3 DEF Header, Empty
<1>5. s \in Sessions
  BY <1>3, <1>4 DEF Sessions
<1>6. /\ s.uri = "ws" /\ s.connection = "UPGRADE" /\ s.content = Header /\ s.ws = TRUE
      /\ s.fd = sess[c].fd /\ s.context = sess[c].context /\ s.borrowed = sess[c].borrowed
  BY <1>3, <1>4 DEF Sessions
<1> HIDE DEF s
<1>7. Coherent(s)
  BY <1>3, <1>4, <1>6, Zenon DEF Coherent, Empty, None
<1>8. Left(s) = Header
  <2>1. Left(s) = Header \o <<>> \o <<>>
    BY <1>3, <1>6, Zenon DEF Left, Empty
  <2> QED BY <1>4, <2>1, ConcatEmptySeq
<1>9. Kept(s, r)
  BY <1>5, <1>7, RespondKeeps
<1> DEFINE t == Settled(r)
<1>10. /\ t \in Sessions /\ Coherent(t) /\ r.out \in Seq(Nat)
       /\ r.out \o Left(t) = Header /\ t.fd = NoFile
  BY <1>3, <1>5, <1>6, <1>8, <1>9, SettledKeeps DEF Kept, Empty
<1>11. GoesOn(c, t, r.out, unacked[c])
  BY <1>2
<1> HIDE DEF t
<1>12. /\ expected' \in [Conns -> Seq(Nat)] /\ expected'[c] = out[c] \o (r.out \o Left(t))
       /\ \A d \in Conns \ {c} : expected'[d] = expected[d]
  <2>1. out[c] \o Header \in Seq(Nat)
    BY <1>3, <1>4, ConcatProperties
  <2> QED BY <1>1, <1>3, <1>10, <2>1 DEF IInv, Types
<1>13. /\ unacked[c] \in Nat /\ UNCHANGED <<tcp, cbs, server>>
       /\ pieces' \in [Conns -> 0 .. 2] /\ ~(pieces'[c] > 0)
       /\ \A d \in Conns \ {c} : pieces'[d] = pieces[d]
  BY <1>1, <1>3 DEF IInv, Types
<1> QED BY <1>3, <1>10, <1>11, <1>12, <1>13, GoingOn

LEMMA FrameIInv ==
    ASSUME IInv, NEW c \in Conns, RecvFrame(c)
    PROVE  IInv'
<1>1. PICK answer \in {<<>>, <<201>>} :
         LET s == [sess[c] EXCEPT !.content = @ \o answer] IN
         /\ expected' = [expected EXCEPT ![c] = @ \o answer]
         /\ \E r \in Respond(s) : GoesOn(c, r.s, r.out, unacked[c])
  BY DEF RecvFrame
<1> DEFINE s == [sess[c] EXCEPT !.content = @ \o answer]
<1>2. /\ sess[c] \in Sessions /\ Coherent(sess[c]) /\ cbs[c] = "session"
      /\ out[c] \in Seq(Nat) /\ unacked[c] \in Nat
      /\ expected \in [Conns -> Seq(Nat)] /\ pieces \in [Conns -> 0 .. 2]
      /\ pieces[c] > 0 => sess[c].uri \in {None, "post"}
  BY DEF RecvFrame, IInv, Types, Coherence
<1>3. sess[c].uri = "ws" /\ sess[c].fd = NoFile /\ ~sess[c].context /\ ~sess[c].borrowed
  BY <1>2, Zenon DEF RecvFrame, Coherent
<1>4. answer \in Seq(Nat) /\ sess[c].content \in Seq(Nat)
  <2>1. <<>> \in Seq(Nat) /\ <<201>> \in Seq(Nat)
    OBVIOUS
  <2>2. answer = <<>> \/ answer = <<201>>
    BY Zenon
  <2>3. answer \in Seq(Nat)
    BY <2>1, <2>2, Zenon
  <2> QED BY <1>2, <2>3 DEF Sessions
<1>5. sess[c].content \o answer \in Seq(Nat)
  BY <1>4, ConcatProperties
<1>6. s \in Sessions
  BY <1>2, <1>5 DEF Sessions
<1>7. /\ s.uri = sess[c].uri /\ s.connection = sess[c].connection /\ s.fd = sess[c].fd
      /\ s.context = sess[c].context /\ s.borrowed = sess[c].borrowed
      /\ s.ws = sess[c].ws /\ s.content = sess[c].content \o answer
  BY <1>2, Zenon DEF Sessions
<1>8. PICK r \in Respond(s) : GoesOn(c, r.s, r.out, unacked[c])
  BY <1>1
<1>9. expected' = [expected EXCEPT ![c] = @ \o answer]
  BY <1>1
<1> HIDE DEF s
<1>10. Coherent(s)
  BY <1>2, <1>3, <1>7, Zenon DEF Coherent, None
<1>11. Left(s) = sess[c].content \o answer /\ Left(sess[c]) = sess[c].content
  <2>1. Left(s) = (sess[c].content \o answer) \o <<>> \o <<>>
    BY <1>3, <1>7, Zenon DEF Left
  <2>2. Left(sess[c]) = sess[c].content \o <<>> \o <<>>
    BY <1>3, Zenon DEF Left
  <2> QED BY <1>4, <1>5, <2>1, <2>2, ConcatEmptySeq
<1>12. Kept(s, r)
  BY <1>6, <1>10, RespondKeeps
<1>13. /\ r.s \in Sessions /\ Coherent(r.s) /\ r.out \in Seq(Nat) /\ r.s.fd = NoFile
       /\ r.out \o Left(r.s) = sess[c].content \o answer
  BY <1>3, <1>7, <1>11, <1>12 DEF Kept
<1>14. /\ expected' \in [Conns -> Seq(Nat)]
       /\ expected'[c] = out[c] \o (r.out \o Left(r.s))
       /\ \A d \in Conns \ {c} : expected'[d] = expected[d]
  <2>1. expected[c] = out[c] \o sess[c].content
    BY <1>2, <1>11 DEF IInv, NothingLost
  <2>2. expected[c] \o answer = out[c] \o (sess[c].content \o answer)
    <3>1. out[c] \in Seq(Nat)
      BY <1>2
    <3>2. (out[c] \o sess[c].content) \o answer = out[c] \o (sess[c].content \o answer)
      BY <1>4, <3>1, Associative
    <3> QED BY <2>1, <3>2
  <2>3. expected[c] \o answer \in Seq(Nat)
    BY <1>2, <1>4, ConcatProperties
  <2> QED BY <1>2, <1>9, <1>13, <2>2, <2>3
<1>15. /\ UNCHANGED <<tcp, cbs, server>> /\ asked' \in [Conns -> 0 .. MaxRequests]
       /\ pieces' \in [Conns -> 0 .. 2] /\ ~(pieces'[c] > 0)
       /\ \A d \in Conns \ {c} : pieces'[d] = pieces[d]
  <2>1. ~(pieces[c] > 0)
    BY <1>2, <1>3 DEF None
  <2>2. pieces' = pieces
    BY DEF RecvFrame
  <2> QED BY <1>2, <2>1, <2>2, HttpAssumption
        DEF RecvFrame, IInv, Types, HttpAssumption
<1> QED BY <1>2, <1>8, <1>13, <1>14, <1>15, GoingOn

LEMMA SentIInv ==
    ASSUME IInv, NEW c \in Conns, Sent(c)
    PROVE  IInv'
<1> DEFINE s == sess[c]
<1>1. PICK left \in 0 .. unacked[c] - 1, r \in Respond(s) :
         IF r.done /\ s.connection = "KEEP_ALIVE"
         THEN Close(c, r.s)
         ELSE /\ GoesOn(c, [Settled(r) EXCEPT !.retries = 0], r.out, left)
              /\ UNCHANGED <<tcp, cbs, server, client, expected>>
  BY DEF Sent
<1>2. /\ s \in Sessions /\ Coherent(s) /\ cbs[c] = "session"
      /\ unacked[c] \in Nat /\ out[c] \in Seq(Nat)
      /\ expected \in [Conns -> Seq(Nat)] /\ pieces \in [Conns -> 0 .. 2]
      /\ asked \in [Conns -> 0 .. MaxRequests]
      /\ pieces[c] > 0 => s.uri \in {None, "post"}
      /\ expected[c] = out[c] \o Left(s)
  BY DEF Sent, IInv, Types, Coherence, NothingLost
<1> HIDE DEF s
<1>3. Kept(s, r)
  BY <1>2, RespondKeeps
<1>4. CASE r.done /\ s.connection = "KEEP_ALIVE"
  <2>1. r.s.fd # NoFile => sess[c].fd # NoFile
    BY <1>3 DEF Kept, s
  <2>2. Close(c, r.s)
    BY <1>1, <1>4, Zenon
  <2> QED BY <1>2, <2>1, <2>2, Closing
<1>5. CASE ~(r.done /\ s.connection = "KEEP_ALIVE")
  <2> DEFINE t == [Settled(r) EXCEPT !.retries = 0]
  <2>1. GoesOn(c, t, r.out, left) /\ UNCHANGED <<tcp, cbs, server, client, expected>>
    BY <1>1, <1>5, Zenon
  <2>2. /\ Settled(r) \in Sessions /\ Coherent(Settled(r))
        /\ Left(Settled(r)) = Left(r.s) /\ Settled(r).fd = r.s.fd
        /\ Settled(r).uri \in {s.uri, None}
    BY <1>2, <1>3, SettledKeeps
  <2>3. 0 \in 0 .. MaxRetries
    BY HttpAssumption DEF HttpAssumption
  <2>4. /\ t \in Sessions /\ Coherent(t) /\ Left(t) = Left(r.s)
        /\ t.fd = r.s.fd /\ t.uri = Settled(r).uri
    BY <2>2, <2>3, RetriedKeeps
  <2> HIDE DEF t
  <2>5. r.out \in Seq(Nat) /\ r.out \o Left(t) = Left(s)
    BY <1>3, <2>4 DEF Kept
  <2>6. t.fd # NoFile => sess[c].fd # NoFile \/ FilesOpen < MaxFiles
    BY <1>3, <2>4 DEF Kept, s
  <2>7. left \in Nat
    BY <1>2
  <2>8. /\ expected' \in [Conns -> Seq(Nat)] /\ expected'[c] = out[c] \o (r.out \o Left(t))
        /\ \A d \in Conns \ {c} : expected'[d] = expected[d]
    BY <1>2, <2>1, <2>5
  <2>9. /\ UNCHANGED <<tcp, cbs, server>>
        /\ asked' \in [Conns -> 0 .. MaxRequests] /\ pieces' \in [Conns -> 0 .. 2]
        /\ \A d \in Conns \ {c} : pieces'[d] = pieces[d]
        /\ pieces'[c] > 0 => t.uri \in {None, "post"}
    <3>1. pieces' = pieces /\ asked' = asked
      BY <2>1 DEF client
    <3>2. pieces[c] > 0 => t.uri \in {None, "post"}
      BY <1>2, <2>2, <2>4
    <3> QED BY <1>2, <2>1, <3>1, <3>2
  <2> QED BY <1>2, <2>1, <2>4, <2>5, <2>6, <2>7, <2>8, <2>9, GoingOn
<1> QED BY <1>4, <1>5

LEMMA PollIInv ==
    ASSUME IInv, NEW c \in Conns, Poll(c)
    PROVE  IInv'
<1> DEFINE closing == sess[c].connection = "CLOSE"
           n == IF closing /\ sess[c].retries < MaxRetries THEN sess[c].retries + 1
                ELSE sess[c].retries
           s == [sess[c] EXCEPT !.retries = n]
<1>1. \/ Close(c, s)
      \/ /\ \E r \in Polled(s) : GoesOn(c, Settled(r), r.out, unacked[c])
         /\ UNCHANGED <<tcp, cbs, server, client, expected>>
  BY DEF Poll
<1>2. /\ sess[c] \in Sessions /\ Coherent(sess[c]) /\ cbs[c] = "session"
      /\ unacked[c] \in Nat /\ out[c] \in Seq(Nat)
      /\ expected \in [Conns -> Seq(Nat)] /\ pieces \in [Conns -> 0 .. 2]
      /\ asked \in [Conns -> 0 .. MaxRequests]
      /\ pieces[c] > 0 => sess[c].uri \in {None, "post"}
      /\ expected[c] = out[c] \o Left(sess[c])
  BY DEF Poll, IInv, Types, Coherence, NothingLost
<1>3. n \in 0 .. MaxRetries
  BY <1>2, HttpAssumption DEF Sessions, HttpAssumption
<1> HIDE DEF n
<1>4. /\ s \in Sessions /\ Coherent(s) /\ Left(s) = Left(sess[c])
      /\ s.fd = sess[c].fd /\ s.uri = sess[c].uri
  BY <1>2, <1>3, RetriedKeeps
<1> HIDE DEF s
<1>5. CASE Close(c, s)
  BY <1>2, <1>4, <1>5, Closing
<1>6. CASE /\ \E r \in Polled(s) : GoesOn(c, Settled(r), r.out, unacked[c])
           /\ UNCHANGED <<tcp, cbs, server, client, expected>>
  <2>1. PICK r \in Polled(s) : GoesOn(c, Settled(r), r.out, unacked[c])
    BY <1>6
  <2>2. Kept(s, r)
    <3>1. CASE s.uri # None
      BY <1>4, <2>1, <3>1, RespondKeeps DEF Polled
    <3>2. CASE s.uri = None
      <4>1. r = Outcome(s, <<>>, FALSE)
        BY <2>1, <3>2 DEF Polled
      <4>2. r.s = s /\ r.out = <<>> /\ r.done = FALSE
        BY <4>1 DEF Outcome
      <4>3. r.out \o Left(s) = Left(s) /\ r.out \in Seq(Nat)
        BY <1>4, <4>2, RestTypes, ConcatEmptySeq
      <4>4. r.done \in BOOLEAN /\ ~r.done
        BY <4>2, Zenon
      <4> QED BY <1>4, <4>2, <4>3, <4>4, Zenon DEF Kept
    <3> QED BY <3>1, <3>2
  <2> DEFINE t == Settled(r)
  <2>3. /\ t \in Sessions /\ Coherent(t) /\ Left(t) = Left(r.s) /\ t.fd = r.s.fd
        /\ t.uri \in {s.uri, None}
    BY <1>4, <2>2, SettledKeeps
  <2>4. GoesOn(c, t, r.out, unacked[c])
    BY <2>1
  <2> HIDE DEF t
  <2>5. r.out \in Seq(Nat) /\ r.out \o Left(t) = Left(sess[c])
    BY <1>4, <2>2, <2>3 DEF Kept
  <2>6. t.fd # NoFile => sess[c].fd # NoFile \/ FilesOpen < MaxFiles
    BY <1>4, <2>2, <2>3 DEF Kept
  <2>7. /\ expected' \in [Conns -> Seq(Nat)] /\ expected'[c] = out[c] \o (r.out \o Left(t))
        /\ \A d \in Conns \ {c} : expected'[d] = expected[d]
    BY <1>2, <1>6, <2>5
  <2>8. /\ UNCHANGED <<tcp, cbs, server>>
        /\ asked' \in [Conns -> 0 .. MaxRequests] /\ pieces' \in [Conns -> 0 .. 2]
        /\ \A d \in Conns \ {c} : pieces'[d] = pieces[d]
        /\ pieces'[c] > 0 => t.uri \in {None, "post"}
    <3>1. pieces' = pieces /\ asked' = asked
      BY <1>6 DEF client
    <3>2. pieces[c] > 0 => t.uri \in {None, "post"}
      BY <1>2, <1>4, <2>3
    <3> QED BY <1>2, <1>6, <3>1, <3>2
  <2> QED BY <1>2, <2>3, <2>4, <2>5, <2>6, <2>7, <2>8, GoingOn
<1> QED BY <1>1, <1>5, <1>6

-------------------------------------------------------------------------------
LEMMA InitIInv == Init => IInv
<1> SUFFICES ASSUME Init PROVE IInv
  OBVIOUS
<1> USE DEF Init
<1>1. Types
  <2>1. 0 \in 0 .. MaxClients /\ 0 \in 0 .. MaxRequests
    BY HttpAssumption DEF HttpAssumption
  <2> QED BY <2>1, FreshSession DEF Types
<1>2. FilesLimited
  <2>1. Opened = {}
    BY FreshSession DEF Opened
  <2>2. Cardinality(Opened) + lostFiles <= MaxFiles
    BY <2>1, FS_EmptySet, HttpAssumption DEF HttpAssumption
  <2> QED BY <2>2, FilesCounted DEF FilesLimited
<1>3. CountIsSessions
  <2>1. {c \in Conns : cbs[c] = "session"} = {}
    OBVIOUS
  <2>2. Cardinality({c \in Conns : cbs[c] = "session"}) = 0
    BY <2>1, FS_EmptySet
  <2> QED BY <2>2 DEF CountIsSessions
<1>4. Coherence /\ NothingLost
  BY FreshSession DEF Coherence, NothingLost
<1> QED BY <1>1, <1>2, <1>3, <1>4 DEF IInv

LEMMA NextIInv == IInv /\ [Next]_vars => IInv'
<1> SUFFICES ASSUME IInv, [Next]_vars PROVE IInv'
  OBVIOUS
<1>1. CASE SaveElsewhere
  BY <1>1, Resetting DEF SaveElsewhere, SaveFails
<1>2. ASSUME NEW c \in Conns, Accept(c) \/ AcceptTooMany(c) PROVE IInv'
  BY <1>2, AcceptIInv
<1>3. ASSUME NEW c \in Conns, Request(c) PROVE IInv'
  BY <1>3, BusyIInv, UnknownIInv, GetIInv, PostIInv, BodyIInv, UpgradeIInv, FrameIInv
     DEF Request
<1>4. ASSUME NEW c \in Conns, Ends(c) PROVE IInv'
  BY <1>4, EndsIInv
<1>5. ASSUME NEW c \in Conns, Sent(c) PROVE IInv'
  BY <1>5, SentIInv
<1>6. ASSUME NEW c \in Conns, Poll(c) PROVE IInv'
  BY <1>6, PollIInv
<1>7. ASSUME NEW c \in Conns, PollRetry(c) PROVE IInv'
  BY <1>7, Resetting DEF PollRetry
<1>8. CASE UNCHANGED vars
  BY <1>8 DEF vars, server, client, stream, IInv, Types, FilesLimited, FilesOpen,
              CountIsSessions, Coherence, Coherent, Empty, NothingLost, Left
<1> QED BY <1>1, <1>2, <1>3, <1>4, <1>5, <1>6, <1>7, <1>8 DEF Next

\* The types, and the limits: no more slots, retries or descriptors are in use than
\* there are.
THEOREM HttpTypeCorrect == Spec => []TypeOK
<1>1. IInv => TypeOK
  BY DEF IInv, Types, FilesLimited, TypeOK
<1> QED BY InitIInv, NextIInv, <1>1, PTL DEF Spec

\* client.count never drifts from the sessions there are, however many connections
\* come and whichever way each ends.
THEOREM SlotsCounted == Spec => []CountIsSessions
<1>1. IInv => CountIsSessions
  BY DEF IInv
<1> QED BY InitIInv, NextIInv, <1>1, PTL DEF Spec

\* On every connection, what was sent and what is left to send are the answers, for
\* pages of any length and writes cut anywhere.
THEOREM AnswersWhole == Spec => []NothingLost
<1>1. IInv => NothingLost
  BY DEF IInv
<1> QED BY InitIInv, NextIInv, <1>1, PTL DEF Spec

\* The server closes a keep-alive connection with nothing of its answers left.
THEOREM ClosedWhole == Spec => ClosesWhole
<1>1. ASSUME IInv, NEW c \in Conns, Sent(c), cbs'[c] # "session"
      PROVE  out[c] = expected[c]
  <2> DEFINE s == sess[c]
  <2>1. /\ s \in Sessions /\ Coherent(s) /\ cbs[c] = "session" /\ out[c] \in Seq(Nat)
        /\ expected[c] = out[c] \o Left(s)
    BY <1>1 DEF Sent, IInv, Types, Coherence, NothingLost
  <2>2. PICK left \in 0 .. unacked[c] - 1, r \in Respond(s) :
           \/ r.done
           \/ UNCHANGED <<tcp, cbs, server, client, expected>>
    BY <1>1, Zenon DEF Sent
  <2> HIDE DEF s
  <2>3. Kept(s, r)
    BY <2>1, <2>2, RespondKeeps
  <2>4. r.done
    BY <1>1, <2>1, <2>2
  <2>5. Left(r.s) = <<>> /\ r.out = <<>>
    BY <2>3, <2>4 DEF Kept, Empty, Left
  <2>6. Left(s) = <<>>
    BY <2>3, <2>5 DEF Kept
  <2> QED BY <2>1, <2>6, ConcatEmptySeq
<1>2. IInv /\ [Next]_vars =>
        [\A c \in Conns : Sent(c) /\ cbs'[c] # "session" => out[c] = expected[c]]_vars
  BY <1>1
<1> QED BY InitIInv, NextIInv, <1>2, PTL DEF Spec, ClosesWhole
===============================================================================
