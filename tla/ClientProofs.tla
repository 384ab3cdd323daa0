---------------------------- MODULE ClientProofs ----------------------------
(***************************************************************************)
(* Proofs about Client: an inductive invariant for each part of the page,  *)
(* then the properties of the whole.                                       *)
(***************************************************************************)
EXTENDS Client, SequenceLemmas
-----------------------------------------------------------------------------
(* The page.                                                               *)

\* One tree at most is asked for, the one of navigationSessionId if that names any;
\* and what is shown was served by the server.
Asked ==
  /\ \A r \in requests : r \in Page!Request /\ (nav # None => r.of = nav) /\ (r.found => r.of \in exists \cup gone)
  /\ \A r, q \in requests : r = q
  /\ error => requests = {}
  /\ shown \in Roots => shown \in exists \cup gone

\* A query of the list in flight will not take the session shown off the list.
Answers ==
  /\ list # None => list \subseteq Page!Openable
  /\ asked # None => asked \subseteq Page!Openable
  /\ asked # None /\ shown \in Roots \cap exists /\ Page!Listed(shown) => shown \in asked

PageCore ==
  /\ exists \subseteq Page!Openable /\ gone \subseteq Page!Openable
  /\ nav \in Page!Openable \cup {None} /\ shown \in Page!Openable \cup {None} /\ live \in Torrents \cup {None}
  /\ error \in BOOLEAN /\ parents \in Seq(Page!Openable)
  /\ live # None /\ requests = {} => nav = None
  /\ Asked /\ Answers
  /\ Page!ShownIsAsked /\ Page!OneThing

\* A place in the history names a session or a live preview, not both.
Visited(l) ==
  /\ l \in Page!Location
  /\ l.live # None => l.session = None

PageInv == PageCore /\ Visited(at) /\ Visited(previous)

\* A step that also writes the history keeps it sound.
LEMMA PageWrites ==
  ASSUME PageInv, PageCore', Page!Write
  PROVE  PageInv'
<1>1. requests' = {} => Visited(Page!Here')
  BY DEF PageCore, Visited, Page!Here, Page!Location, Page!OneThing
<1>2. Page!Here' = Page!Here' /\ at' = IF requests' = {} THEN Page!Here' ELSE at
  BY DEF Page!Write
<1>3. Visited(at)' /\ Visited(previous)'
  BY <1>1, <1>2, Zenon DEF PageInv, Visited, Page!Write
<1> QED  BY <1>3 DEF PageInv

\* A session that the page asks for.
LEMMA PageOpens ==
  ASSUME PageInv, NEW s \in Page!Openable, NEW resets \in BOOLEAN, NEW lists \in BOOLEAN,
         Page!Open(s, resets, lists), UNCHANGED <<list, asked>>, live' = live, parents' \in Seq(Page!Openable),
         UNCHANGED gone, exists' = exists \/ (\E c \in Children : exists' = exists \cup {c})
  PROVE  PageCore'
<1> DEFINE new == Page!Asking(s, resets, lists)
<1>1. new \in Page!Request /\ new.of = s /\ ~new.found
  BY DEF Page!Asking, Page!Request
<1>2. requests' = {new} /\ error' = FALSE /\ nav' = s /\ shown' = (IF shown = s THEN s ELSE None)
  BY DEF Page!Open
<1> HIDE DEF new
<1>3. s # None /\ None \notin Roots
  BY ClientConstants DEF Page!Openable
<1>4. Asked'
  BY <1>1, <1>2, <1>3 DEF PageInv, PageCore, Asked
<1>5. shown' \in Roots => shown' = shown /\ (shown \in exists' <=> shown \in exists)
  BY <1>2, <1>3, ClientConstants
<1>6. Answers'
  BY <1>2, <1>3, <1>5 DEF PageInv, PageCore, Answers, Page!Listed
<1>7. exists' \subseteq Page!Openable
  BY DEF PageInv, PageCore, Page!Openable
<1> QED  BY <1>2, <1>3, <1>4, <1>6, <1>7 DEF PageInv, PageCore, Page!ShownIsAsked, Page!OneThing

\* Back, forward and a reload arrive at a place of the history.
LEMMA PageArrives ==
  ASSUME PageInv, NEW l, Visited(l), NEW from, from \in {shown, None}, Page!Arrive(l, from),
         UNCHANGED <<exists, gone>>, UNCHANGED <<list, asked>> \/ (list' = None /\ asked' = None)
  PROVE  PageCore'
<1> DEFINE new == Page!Asking(l.session, FALSE, l.parents = <<>>)
<1>1. /\ l.session \in Page!Openable \cup {None} /\ l.live \in Torrents \cup {None}
      /\ l.parents \in Seq(Page!Openable) /\ (l.live # None => l.session = None)
  BY DEF Visited, Page!Location
<1>2. l.session # None => new \in Page!Request /\ new.of = l.session /\ ~new.found
  BY <1>1 DEF Page!Asking, Page!Request
<1>3. /\ error' = FALSE /\ live' = l.live /\ parents' = l.parents /\ nav' = l.session
      /\ shown' = (IF l.session = from THEN from ELSE None)
      /\ requests' = IF l.session \in {None, from} THEN {} ELSE {new}
  BY DEF Page!Arrive
<1> HIDE DEF new
<1>4. shown' = shown \/ shown' = None
  BY <1>3
<1>5. None \notin Roots
  BY ClientConstants
<1>6. Asked'
  BY <1>1, <1>2, <1>3, <1>4, <1>5 DEF PageInv, PageCore, Asked
<1>7. Answers'
  BY <1>3, <1>4, <1>5 DEF PageInv, PageCore, Answers, Page!Listed
<1> QED  BY <1>1, <1>3, <1>4, <1>6, <1>7 DEF PageInv, PageCore, Page!ShownIsAsked, Page!OneThing

\* useWorkspacePreviewNavigation.ts: every step of the page keeps its invariant.
LEMMA PageInvNext ==
  ASSUME PageInv, Page!Next \/ UNCHANGED ofPage
  PROVE  PageInv'
<1>0. UNCHANGED <<exists, gone, list, asked, requests, nav, shown, parents, live, error>> => PageCore'
  BY DEF PageInv, PageCore, Asked, Answers, Page!ShownIsAsked, Page!OneThing, Page!Listed
<1>1. CASE UNCHANGED ofPage
  BY <1>0, <1>1 DEF ofPage, PageInv, Visited
<1>2. ASSUME NEW s \in Roots, Page!OpenReady(s) PROVE PageInv'
  BY <1>2, PageOpens, PageWrites DEF Page!OpenReady, PageInv, PageCore, Page!Openable, Page!server, Page!queries
<1>3. ASSUME NEW c \in Children, Page!OpenChild(c) PROVE PageInv'
  <2>1. parents' \in Seq(Page!Openable)
    BY <1>3, ClientConstants DEF Page!OpenChild, PageInv, PageCore, Page!Openable
  <2> QED  BY <1>3, <2>1, PageOpens, PageWrites DEF Page!OpenChild, Page!Openable, Page!queries
<1>4. ASSUME NEW i \in DOMAIN parents, Page!Crumb(i) PROVE PageInv'
  <2>1. parents' \in Seq(Page!Openable) /\ parents[i] \in Page!Openable
    BY <1>4 DEF Page!Crumb, PageInv, PageCore
  <2> QED  BY <1>4, <2>1, PageOpens, PageWrites DEF Page!Crumb, Page!server, Page!queries
<1>5. CASE Page!RetryPreview
  <2>1. nav \in Page!Openable
    BY <1>5 DEF Page!RetryPreview, PageInv, PageCore
  <2> QED  BY <1>5, <2>1, PageOpens, PageWrites DEF Page!RetryPreview, Page!server, Page!queries, PageInv, PageCore
<1>6. ASSUME NEW r \in requests, Page!TreeServed(r) PROVE PageInv'
  <2> DEFINE q == [r EXCEPT !.found = TRUE]
  <2>1. r \in Page!Request /\ requests = {r}
    BY DEF PageInv, PageCore, Asked
  <2>2. q \in Page!Request /\ q.of = r.of
    BY <2>1 DEF Page!Request
  <2>3. requests' = {q} /\ r.of \in exists
    BY <1>6, <2>1 DEF Page!TreeServed
  <2>4. UNCHANGED <<exists, gone, list, asked, nav, shown, parents, live, error, at, previous>>
    BY <1>6 DEF Page!TreeServed, Page!server, Page!queries, Page!page, Page!history
  <2> HIDE DEF q
  <2>5. PageCore'
    BY <2>1, <2>2, <2>3, <2>4
    DEF PageInv, PageCore, Asked, Answers, Page!ShownIsAsked, Page!OneThing, Page!Listed
  <2> QED  BY <2>4, <2>5 DEF PageInv, Visited
<1>7. ASSUME NEW r \in requests, Page!Loaded(r) PROVE PageInv'
  <2>1. r \in Page!Request /\ r.of \in Page!Openable /\ requests' = {} /\ r.of \in exists \cup gone /\ (nav # None => r.of = nav)
    BY <1>7 DEF PageInv, PageCore, Asked, Page!Loaded, Page!Request
  <2>2. /\ shown' = r.of /\ live' = None /\ parents' = (IF r.resets THEN <<>> ELSE parents)
        /\ UNCHANGED <<exists, gone, nav, error>> /\ asked' = None /\ ~error
        /\ list' = (IF r.lists THEN (IF list = None THEN {} ELSE list) \cup {r.of} ELSE list)
    BY <1>7 DEF Page!Loaded, Page!WithOpenedSession, Page!server, PageInv, PageCore, Asked
  <2>3. Asked' /\ Answers'
    BY <2>1, <2>2 DEF PageInv, PageCore, Asked, Answers
  <2>4. parents' = <<>> \/ parents' = parents
    BY <2>2, Zenon
  <2>8. parents \in Seq(Page!Openable) /\ <<>> \in Seq(Page!Openable)
    BY DEF PageInv, PageCore
  <2>5. parents' \in Seq(Page!Openable)
    BY <2>4, <2>8
  <2>6. ~error' /\ live' = None /\ shown' = r.of /\ nav' = nav /\ requests' = {} /\ UNCHANGED <<exists, gone, error>>
    BY <2>1, <2>2
  <2>7. PageCore'
    BY <2>1, <2>3, <2>5, <2>6, Zenon DEF PageInv, PageCore, Page!ShownIsAsked, Page!OneThing
  <2> QED  BY <1>7, <2>7, PageWrites DEF Page!Loaded
<1>8. ASSUME NEW r \in requests, Page!OpenFails(r) PROVE PageInv'
  <2>1. /\ requests' = {} /\ shown' = None /\ live' = None /\ error' = TRUE
        /\ UNCHANGED <<exists, gone, list, asked, nav, parents>>
    BY <1>8 DEF Page!OpenFails, PageInv, PageCore, Asked, Page!server, Page!queries
  <2>2. Asked' /\ Answers'
    BY <2>1, ClientConstants DEF PageInv, PageCore, Asked, Answers
  <2>3. PageCore'
    BY <2>1, <2>2, Zenon DEF PageInv, PageCore, Page!ShownIsAsked, Page!OneThing
  <2> QED  BY <1>8, <2>3, PageWrites DEF Page!OpenFails
<1>9. ASSUME NEW s \in Torrents, Page!SelectLive(s) PROVE PageInv'
  <2>1. /\ requests' = {} /\ error' = FALSE /\ shown' = None /\ nav' = None /\ parents' = <<>> /\ live' = s
        /\ UNCHANGED <<exists, gone, list, asked>>
    BY <1>9 DEF Page!SelectLive, Page!server, Page!queries
  <2>2. Asked' /\ Answers'
    BY <2>1, ClientConstants DEF PageInv, PageCore, Asked, Answers
  <2>4. parents' \in Seq(Page!Openable)
    BY <2>1
  <2>3. PageCore'
    BY <2>1, <2>2, <2>4, Zenon DEF PageInv, PageCore, Page!ShownIsAsked, Page!OneThing
  <2> QED  BY <1>9, <2>3, PageWrites DEF Page!SelectLive
<1>10. CASE Page!CloseLive
  <2>1. live' = None /\ UNCHANGED <<exists, gone, list, asked, requests, nav, shown, parents, error>>
    BY <1>10 DEF Page!CloseLive, Page!server, Page!queries
  <2>2. PageCore'
    BY <2>1 DEF PageInv, PageCore, Asked, Answers, Page!ShownIsAsked, Page!OneThing, Page!Listed
  <2> QED  BY <1>10, <2>2, PageWrites DEF Page!CloseLive
<1>11. CASE Page!CloseSession
  <2>1. nav' = None /\ parents' = <<>> /\ shown' = None /\ UNCHANGED <<exists, gone, list, asked, requests, live, error>>
    BY <1>11 DEF Page!CloseSession, Page!server, Page!queries
  <2>2. Asked' /\ Answers'
    BY <2>1, ClientConstants DEF PageInv, PageCore, Asked, Answers
  <2>3. PageCore'
    BY <2>1, <2>2 DEF PageInv, PageCore, Page!ShownIsAsked, Page!OneThing
  <2> QED  BY <1>11, <2>3, PageWrites DEF Page!CloseSession
<1>12. CASE Page!Restore
  <2>1. PageCore'
    BY <1>12, PageArrives DEF PageInv, Page!Restore, Page!server, Page!queries
  <2> QED  BY <1>12, <2>1 DEF Page!Restore, PageInv, Visited
<1>13. CASE Page!Reload
  <2>1. PageCore'
    BY <1>13, PageArrives DEF PageInv, Page!Reload, Page!server
  <2> QED  BY <1>13, <2>1 DEF Page!Reload, Page!history, PageInv, Visited
<1>14. CASE Page!ListAsk
  <2>1. /\ asked' = exists \cap Roots
        /\ UNCHANGED <<exists, gone, list, requests, nav, shown, parents, live, error, at, previous>>
    BY <1>14 DEF Page!ListAsk, Page!server, Page!page, Page!history
  <2>2. PageCore'
    BY <2>1 DEF PageInv, PageCore, Asked, Answers, Page!ShownIsAsked, Page!OneThing, Page!Openable, Page!Listed
  <2> QED  BY <2>1, <2>2 DEF PageInv, Visited
<1>15. CASE Page!ListAnswer
  <2>1. /\ asked # None /\ list' = asked /\ asked' = None
        /\ UNCHANGED <<exists, gone, requests, nav, shown, parents, live, error, at, previous>>
    BY <1>15 DEF Page!ListAnswer, Page!server, Page!page, Page!history
  <2>2. PageCore'
    BY <2>1 DEF PageInv, PageCore, Asked, Answers, Page!ShownIsAsked, Page!OneThing, Page!Listed
  <2> QED  BY <2>1, <2>2 DEF PageInv, Visited
<1>16. ASSUME NEW s \in Page!Openable, (s \in Roots /\ Page!Appear(s)) \/ Page!Vanish(s) PROVE PageInv'
  <2>1. UNCHANGED <<list, asked, requests, nav, shown, parents, live, error, at, previous>>
    BY <1>16 DEF Page!Appear, Page!Vanish, Page!queries, Page!page, Page!history
  <2>2. exists \cup gone \subseteq exists' \cup gone' /\ exists' \subseteq Page!Openable /\ gone' \subseteq Page!Openable
    BY <1>16 DEF Page!Appear, Page!Vanish, PageInv, PageCore
  <2>3. shown \in Roots /\ shown \in exists' => shown \in exists
    BY <1>16 DEF Page!Appear, Page!Vanish, PageInv, PageCore, Asked
  <2>4. PageCore'
    BY <2>1, <2>2, <2>3 DEF PageInv, PageCore, Asked, Answers, Page!ShownIsAsked, Page!OneThing, Page!Listed
  <2> QED  BY <2>1, <2>4 DEF PageInv, Visited
<1> QED
  BY <1>1, <1>2, <1>3, <1>4, <1>5, <1>6, <1>7, <1>8, <1>9, <1>10, <1>11, <1>12, <1>13, <1>14, <1>15, <1>16
  DEF Page!Next, Page!Openable

\* What takes a session off the list is an answer that the server gave without it.
LEMMA PageStaysListed ==
  ASSUME PageInv, Page!Next, shown \in Roots \cap exists', shown' = shown, Page!Listed(shown)
  PROVE  Page!Listed(shown)' = TRUE
<1>1. CASE list' = list
  BY <1>1 DEF Page!Listed
<1>2. ASSUME NEW r \in requests, Page!Loaded(r) PROVE Page!Listed(shown)' = TRUE
  <2>1. list # None /\ list \subseteq Page!Openable /\ shown \in list /\ r.of \in Page!Openable
    BY DEF Page!Listed, PageInv, PageCore, Answers, Asked, Page!Request
  <2>2. list' = list \/ list' = list \cup {r.of}
    BY <1>2, <2>1 DEF Page!Loaded, Page!WithOpenedSession
  <2>3. list' # None
    BY <2>1, <2>2, ClientConstants DEF Page!Openable
  <2> QED  BY <2>1, <2>2, <2>3 DEF Page!Listed
<1>3. CASE Page!Reload
  BY <1>3, ClientConstants DEF Page!Reload, Page!Arrive
<1>4. CASE Page!ListAnswer
  BY <1>4 DEF Page!ListAnswer, Page!server, PageInv, PageCore, Answers, Page!Listed
<1> QED
  BY <1>1, <1>2, <1>3, <1>4 DEF Page!Next, Page!OpenReady, Page!OpenChild, Page!Crumb, Page!RetryPreview,
     Page!TreeServed, Page!OpenFails, Page!SelectLive, Page!CloseLive, Page!CloseSession, Page!Restore,
     Page!ListAsk, Page!Appear, Page!Vanish, Page!queries

-----------------------------------------------------------------------------
(* Audio and video.                                                        *)

\* A sequence lists as many elements as it has places just when it holds each once.
LEMMA EachOnce ==
  ASSUME NEW q, NEW S, q \in Seq(S)
  PROVE  Audio!Cardinality(Audio!Elements(q)) = Len(q) <=> IsInjective(q)
<1>1. Audio!Cardinality(Audio!Elements(q)) = Cardinality(Audio!Elements(q))
  BY DEF Audio!Cardinality, Cardinality
<1>2. PICK T, n : T = Audio!Elements(q) /\ n = Len(q)
  OBVIOUS
<1>7. n \in Nat
  BY <1>2
<1>3. q \in Surjection(1..n, T)
  BY <1>2, <1>7 DEF Surjection, Audio!Elements
<1>4. IsFiniteSet(1..n) /\ Cardinality(1..n) = n
  BY <1>7, FS_Interval
<1>5. Cardinality(T) = n <=> q \in Injection(1..n, T)
  BY <1>3, <1>4, FS_Surjection
<1>6. q \in Injection(1..n, T) <=> IsInjective(q)
  BY <1>3 DEF Injection, Surjection
<1> QED  BY <1>1, <1>2, <1>5, <1>6

\* Shuffling rearranges a queue.
LEMMA ShuffleRearranges ==
  ASSUME NEW q, NEW S, q \in Seq(S), IsInjective(q), NEW p, NEW s \in Audio!Shuffles(q, p)
  PROVE  s \in Seq(S) /\ IsInjective(s) /\ Audio!Elements(s) = Audio!Elements(q)
<1>1. s \in [1..Len(q) -> Audio!Elements(q)] /\ Audio!Elements(s) = Audio!Elements(q)
  BY DEF Audio!Shuffles
<1>2. Audio!Elements(q) \subseteq S /\ Len(q) \in Nat
  BY DEF Audio!Elements
<1>3. PICK n, T : n = Len(q) /\ T = Audio!Elements(q)
  BY <1>2
<1>4. s \in [1..n -> T] /\ T \subseteq S
  BY <1>1, <1>2, <1>3
<1>7. n \in Nat
  BY <1>2, <1>3
<1>5. s \in Seq(S) /\ Len(s) = n
  BY <1>4, <1>7
<1>6. Audio!Cardinality(Audio!Elements(q)) = Len(q)
  BY EachOnce
<1> QED  BY <1>1, <1>3, <1>5, <1>6, EachOnce

\* Filtering a queue takes the other elements out of it.
LEMMA OnlyKeeps ==
  ASSUME NEW q, NEW S, q \in Seq(S), NEW set
  PROVE  /\ Audio!Only(q, set) \in Seq(S)
         /\ Audio!Elements(Audio!Only(q, set)) = Audio!Elements(q) \cap set
         /\ IsInjective(q) => IsInjective(Audio!Only(q, set))
<1>1. PICK keep : keep = {i \in DOMAIN q : q[i] \in set}
  OBVIOUS
<1>2. PICK r : r = FlattenSeq(Filtering(q, keep))
  OBVIOUS
<1>9. r \in Seq(S) /\ Sublist(r, q, keep)
  BY <1>2, SublistProperties
<1>3. r = Audio!Only(q, set)
  <2>1. Filtering(q, keep) = [i \in DOMAIN q |-> IF q[i] \in set THEN <<q[i]>> ELSE <<>>]
    BY <1>1 DEF Filtering
  <2>2. \A x : Audio!FlattenSeq(x) = FlattenSeq(x)
    BY DEF Audio!FlattenSeq, FlattenSeq
  <2> QED  BY <1>2, <2>1, <2>2 DEF Audio!Only
<1>4. PICK m \in [1..Len(r) -> DOMAIN q] :
              /\ \A a, b \in 1..Len(r) : a < b => m[a] < m[b]
              /\ \A a \in 1..Len(r) : m[a] \in keep /\ r[a] = q[m[a]]
              /\ \A i \in DOMAIN q : i \in keep => \E a \in 1..Len(r) : m[a] = i
  BY <1>9 DEF Sublist
<1>5. \A a \in 1..Len(r) : m[a] \in DOMAIN q
  BY <1>4
<1>6. DOMAIN r = 1..Len(r)
  BY <1>9
<1>7. Audio!Elements(r) = Audio!Elements(q) \cap set
  <2>1. ASSUME NEW a \in DOMAIN r PROVE r[a] \in Audio!Elements(q) \cap set
    BY <1>1, <1>4, <1>5, <1>6 DEF Audio!Elements
  <2>2. ASSUME NEW i \in DOMAIN q, q[i] \in set PROVE q[i] \in Audio!Elements(r)
    <3>1. PICK a \in 1..Len(r) : m[a] = i
      BY <1>1, <1>4, <2>2
    <3> QED  BY <1>4, <1>6, <3>1 DEF Audio!Elements
  <2> QED  BY <2>1, <2>2 DEF Audio!Elements
<1>8. ASSUME IsInjective(q) PROVE IsInjective(r)
  <2>1. \A x, y \in DOMAIN q : q[x] = q[y] => x = y
    BY <1>8 DEF IsInjective
  <2>2. ASSUME NEW a \in 1..Len(r), NEW b \in 1..Len(r), r[a] = r[b] PROVE a = b
    <3>1. m[a] = m[b] /\ m[a] \in Nat
      BY <1>4, <1>5, <2>1, <2>2
    <3>2. ~(a < b) /\ ~(b < a)
      BY <1>4, <3>1
    <3> QED  BY <3>2
  <2> QED  BY <1>6, <2>2 DEF IsInjective
<1> QED  BY <1>3, <1>7, <1>8, <1>9

Playable(s) == IF s = None THEN {} ELSE Audio!Elements(Songs[s])

\* A queue of session s: each of its tracks at most once.
Sound(q, s) == q \in Seq(Audio!Paths) /\ IsInjective(q) /\ Audio!Elements(q) \subseteq Playable(s)

QueueInv ==
  /\ session \in Sessions \cup {None} /\ Sound(queue, session)
  /\ track # None => track \in Audio!Elements(queue)
  /\ audioError # None => audioError = track

\* A queue made of the folder of a session is one of that session.
LEMMA FreshIsSound ==
  ASSUME NEW s \in Sessions, s # None, NEW p, NEW q \in Audio!Fresh(s, p)
  PROVE  Sound(q, s) /\ Audio!Elements(q) = Audio!Elements(Songs[s])
<1>1. PICK T : T = Audio!Elements(Songs[s])
  OBVIOUS
<1>2. T \subseteq Audio!Paths
  BY <1>1 DEF Audio!Paths
<1>3. Songs[s] \in Seq(T) /\ IsInjective(Songs[s])
  BY <1>1, ClientConstants DEF IsInjective
<1>4. Songs[s] \in Seq(Audio!Paths)
  BY <1>2, <1>3
<1>5. q = Songs[s] \/ q \in Audio!Shuffles(Songs[s], p)
  BY DEF Audio!Fresh
<1>6. q \in Seq(Audio!Paths) /\ IsInjective(q) /\ Audio!Elements(q) = Audio!Elements(Songs[s])
  BY <1>3, <1>4, <1>5, ShuffleRearranges
<1> QED  BY <1>6 DEF Sound, Playable

\* A track of the session that is not in the queue may join it.
LEMMA AppendIsSound ==
  ASSUME NEW q, NEW s, Sound(q, s), NEW p \in Playable(s), s \in Sessions, p \notin Audio!Elements(q)
  PROVE  Sound(Append(q, p), s) /\ p \in Audio!Elements(Append(q, p))
<1>1. \A x : Audio!Elements(x) = Range(x)
  BY DEF Audio!Elements, Range
<1>2. p \in Audio!Paths
  BY DEF Playable, Audio!Paths
<1>3. q \in Seq(Audio!Paths) /\ IsInjective(q) /\ p \notin Range(q)
  BY <1>1 DEF Sound
<1>4. /\ Append(q, p) \in Seq(Audio!Paths) /\ Range(Append(q, p)) = Range(q) \cup {p}
      /\ IsInjective(Append(q, p))
  BY <1>2, <1>3, AppendNew
<1>5. Range(q) \subseteq Playable(s)
  BY <1>1 DEF Sound
<1>6. Audio!Elements(Append(q, p)) = Range(q) \cup {p}
  BY <1>1, <1>4
<1> QED  BY <1>4, <1>5, <1>6 DEF Sound

\* useAudioPlayback.ts: every step keeps the queue sound.
LEMMA QueueInvNext ==
  ASSUME QueueInv, Audio!Next \/ UNCHANGED ofAudio
  PROVE  QueueInv'
<1>0. ASSUME session' \in Sessions \cup {None}, Sound(queue', session'),
             track' # None => track' \in Audio!Elements(queue'),
             audioError' # None => audioError' = track'
      PROVE  QueueInv'
  BY <1>0, Zenon DEF QueueInv
<1>1. ASSUME UNCHANGED <<session, queue, track>>, audioError' \in {audioError, None} \/ audioError' = track'
      PROVE  QueueInv'
  BY <1>0, <1>1 DEF QueueInv
<1>2. ASSUME UNCHANGED <<session, queue>>, NEW next, NEW keep, Audio!Load(next, keep),
             next # None => next \in Audio!Elements(queue)
      PROVE  QueueInv'
  BY <1>0, <1>2 DEF QueueInv, Audio!Load
<1>3. \A d \in {-1, 1} : Audio!Neighbor(d) # None => Audio!Neighbor(d) \in Audio!Elements(queue)
  <2> SUFFICES ASSUME NEW d \in {-1, 1}, Audio!Neighbor(d) # None
               PROVE  Audio!Neighbor(d) \in Audio!Elements(queue)
    OBVIOUS
  <2>1. PICK n : n = Len(queue)
    OBVIOUS
  <2>2. n \in Nat /\ DOMAIN queue = 1..n
    BY <2>1 DEF QueueInv, Sound
  <2>3. PICK i : i = Audio!Position(queue, track)
    OBVIOUS
  <2>4. i # 0 /\ track \in Audio!Elements(queue)
    BY <2>3 DEF Audio!Neighbor, Audio!Position
  <2>5. i \in 1..n
    BY <2>2, <2>3, <2>4 DEF Audio!Position, Audio!Elements
  <2>6. (((i + d) - 1 + n) % n) + 1 \in 1..n
    BY <2>2, <2>5
  <2>7. Audio!Neighbor(d) = queue[(((i + d) - 1 + n) % n) + 1] \/ (i + d \in DOMAIN queue /\ Audio!Neighbor(d) = queue[i + d])
    <3>1. Audio!Neighbor(d) = IF i = 0 THEN None ELSE IF repeat = "all" THEN queue[(((i + d) - 1 + n) % n) + 1]
                              ELSE IF i + d \in DOMAIN queue THEN queue[i + d] ELSE None
      BY <2>1, <2>3, Zenon DEF Audio!Neighbor
    <3>2. Audio!Neighbor(d) # None
      OBVIOUS
    <3> QED  BY <2>4, <3>1, <3>2, Zenon
  <2> QED  BY <2>2, <2>6, <2>7 DEF Audio!Elements
<1>4. CASE UNCHANGED ofAudio
  BY <1>1, <1>4 DEF ofAudio
<1>5. ASSUME NEW s, NEW p, s \in Sessions \cup {None}, Audio!OpenSession(s, p) PROVE QueueInv'
  <2>1. CASE queue' = <<>> /\ Audio!Load(None, FALSE)
    <3>1. Sound(<<>>, s)
      BY DEF Sound, IsInjective, Audio!Elements
    <3> QED  BY <1>0, <1>5, <2>1, <3>1 DEF Audio!Load, Audio!OpenSession
  <2>2. CASE s # None /\ p \in Audio!Elements(Songs[s]) /\ queue' \in Audio!Fresh(s, p) /\ Audio!Load(p, FALSE)
    <3>1. Sound(queue', s) /\ Audio!Elements(queue') = Audio!Elements(Songs[s])
      BY <1>5, <2>2, FreshIsSound
    <3> QED  BY <1>0, <1>5, <2>2, <3>1 DEF Audio!Load, Audio!OpenSession
  <2> QED  BY <1>5, <2>1, <2>2 DEF Audio!OpenSession
<1>6. ASSUME NEW p, Audio!Select(p) PROVE QueueInv'
  <2>1. session \in Sessions /\ session # None /\ session' = session /\ p \in {Other} \cup Audio!Elements(Songs[session])
    BY <1>6 DEF Audio!Select, QueueInv
  <2>2. CASE UNCHANGED <<queue, track, audio, events, promises, audioError>>
    BY <1>1, <2>1, <2>2
  <2>3. CASE p \in Audio!Elements(Songs[session]) /\ Audio!WithSelected(p) /\ Audio!Load(p, audio)
    <3>1. Sound(queue, session) /\ p \in Playable(session)
      BY <2>1, <2>3 DEF QueueInv, Playable
    <3>2. queue' \in Audio!Fresh(session, p) \/ (queue' = queue /\ p \in Audio!Elements(queue)) \/ (queue' = Append(queue, p) /\ p \notin Audio!Elements(queue))
      BY <2>3 DEF Audio!WithSelected
    <3>3. Sound(queue', session) /\ p \in Audio!Elements(queue')
      <4>1. CASE queue' \in Audio!Fresh(session, p)
        BY <2>1, <2>3, <4>1, FreshIsSound
      <4>2. CASE queue' = Append(queue, p) /\ p \notin Audio!Elements(queue)
        BY <2>1, <3>1, <4>2, AppendIsSound
      <4> QED  BY <3>1, <3>2, <4>1, <4>2
    <3> QED  BY <1>0, <2>1, <2>3, <3>3 DEF Audio!Load
  <2> QED  BY <1>6, <2>1, <2>2, <2>3 DEF Audio!Select
<1>7. CASE Audio!RestoreQueue
  <2>1. session \in Sessions /\ session # None /\ session' = session /\ Songs[session] # <<>>
    BY <1>7 DEF Audio!RestoreQueue, QueueInv
  <2>2. Songs[session][1] \in Audio!Elements(Songs[session])
    <3>1. Songs[session] \in Seq(Audio!Elements(Songs[session]))
      BY <2>1, ClientConstants
    <3>2. 1 \in DOMAIN Songs[session]
      BY <2>1, <3>1
    <3> QED  BY <3>2 DEF Audio!Elements
  <2>3. PICK first \in Audio!Elements(Songs[session]) : queue' \in Audio!Fresh(session, first) /\ Audio!Load(first, FALSE)
    BY <1>7, <2>2 DEF Audio!RestoreQueue
  <2>4. Sound(queue', session) /\ first \in Audio!Elements(queue')
    BY <2>1, <2>3, FreshIsSound
  <2> QED  BY <1>0, <2>1, <2>3, <2>4 DEF Audio!Load
<1>8. ASSUME NEW p \in Audio!Elements(queue), Audio!ChooseTrack(p) PROVE QueueInv'
  BY <1>2, <1>8 DEF Audio!ChooseTrack, Audio!Choose, Audio!lists
<1>9. ASSUME NEW d \in {-1, 1}, Audio!Skip(d) PROVE QueueInv'
  BY <1>2, <1>3, <1>9 DEF Audio!Skip, Audio!Choose, Audio!lists
<1>10. ASSUME NEW p \in Audio!Elements(queue), Audio!RemoveTrack(p) PROVE QueueInv'
  <2>1. queue' = Audio!Only(queue, Audio!Elements(queue) \ {p}) /\ session' = session
    BY <1>10 DEF Audio!RemoveTrack, Audio!Without
  <2>2. Sound(queue', session) /\ Audio!Elements(queue') = Audio!Elements(queue) \ {p} /\ queue' \in Seq(Audio!Paths)
    BY <2>1, OnlyKeeps DEF QueueInv, Sound
  <2>3. CASE p # track
    BY <1>0, <1>10, <2>1, <2>2, <2>3 DEF Audio!RemoveTrack, QueueInv
  <2>4. CASE p = track /\ queue' = <<>>
    BY <1>0, <1>10, <2>1, <2>2, <2>4 DEF Audio!RemoveTrack, Audio!Load, QueueInv
  <2>5. CASE p = track /\ queue' # <<>>
    <3>1. PICK n, i : n = Len(queue') /\ i = Audio!Position(queue, p)
      OBVIOUS
    <3>2. n \in Nat /\ n > 0 /\ DOMAIN queue' = 1..n
      BY <2>2, <2>5, <3>1
    <3>3. i \in DOMAIN queue /\ DOMAIN queue \subseteq Nat \ {0}
      BY <1>10, <3>1 DEF Audio!Position, Audio!Elements, QueueInv, Sound
    <3>4. Audio!Smaller(i, n) \in DOMAIN queue'
      BY <3>2, <3>3 DEF Audio!Smaller
    <3>5. Audio!Load(queue'[Audio!Smaller(i, n)], audio)
      BY <1>10, <2>5, <3>1 DEF Audio!RemoveTrack
    <3>6. queue'[Audio!Smaller(i, n)] \in Audio!Elements(queue')
      BY <3>4 DEF Audio!Elements
    <3> QED  BY <1>0, <2>1, <2>2, <3>5, <3>6 DEF Audio!Load, QueueInv
  <2> QED  BY <2>3, <2>4, <2>5
<1>11. CASE Audio!ToggleShuffle
  <2>1. UNCHANGED <<session, track, audioError>> /\ track # None
    BY <1>11 DEF Audio!ToggleShuffle
  <2>2. CASE queue' \in Audio!Shuffles(queue, track)
    <3>1. queue' \in Seq(Audio!Paths) /\ IsInjective(queue') /\ Audio!Elements(queue') = Audio!Elements(queue)
      BY <2>2, ShuffleRearranges DEF QueueInv, Sound
    <3> QED  BY <1>0, <2>1, <3>1 DEF QueueInv, Sound
  <2>3. CASE queue' = Audio!Only(Songs[session], Audio!Elements(queue))
    <3>1. session \in Sessions /\ session # None
      BY <2>1 DEF QueueInv, Sound, Playable
    <3>2. PICK T : T = Audio!Elements(Songs[session])
      OBVIOUS
    <3>3. Songs[session] \in Seq(T) /\ IsInjective(Songs[session])
      BY <3>1, <3>2, ClientConstants DEF IsInjective
    <3>4. T \subseteq Audio!Paths
      BY <3>1, <3>2 DEF Audio!Paths
    <3>5. Songs[session] \in Seq(Audio!Paths)
      BY <3>3, <3>4
    <3>6. queue' \in Seq(Audio!Paths) /\ IsInjective(queue') /\ Audio!Elements(queue') = T \cap Audio!Elements(queue)
      BY <2>3, <3>2, <3>3, <3>5, OnlyKeeps
    <3>7. Audio!Elements(queue') = Audio!Elements(queue)
      BY <3>1, <3>2, <3>6 DEF QueueInv, Sound, Playable
    <3> QED  BY <1>0, <2>1, <3>6, <3>7 DEF QueueInv, Sound
  <2> QED  BY <1>11, <2>2, <2>3 DEF Audio!ToggleShuffle
<1>12. ASSUME NEW i \in DOMAIN queue, Audio!MoveUp(i) PROVE QueueInv'
  <2>1. PICK n \in Nat : n = Len(queue)
    BY DEF QueueInv, Sound
  <2>2. queue \in [1..n -> Audio!Paths] /\ \A x, y \in 1..n : queue[x] = queue[y] => x = y
    BY <2>1 DEF QueueInv, Sound, IsInjective
  <2>3. i \in 1..n /\ i - 1 \in 1..n /\ i - 1 # i
    BY <1>12, <2>2 DEF Audio!MoveUp
  <2>4. PICK h : h = i - 1
    OBVIOUS
  <2>5. queue' = [queue EXCEPT ![i] = queue[h], ![h] = queue[i]]
    BY <1>12, <2>4 DEF Audio!MoveUp
  <2>6. queue' \in [1..n -> Audio!Paths] /\ \A x \in 1..n : queue'[x] = IF x = i THEN queue[h] ELSE IF x = h THEN queue[i] ELSE queue[x]
    BY <2>2, <2>3, <2>4, <2>5
  <2>7. queue' \in Seq(Audio!Paths)
    BY <2>6
  <2>8. IsInjective(queue')
    BY <2>2, <2>3, <2>4, <2>6 DEF IsInjective
  <2>11. DOMAIN queue = 1..n /\ DOMAIN queue' = 1..n
    BY <2>2, <2>6
  <2>9. Audio!Elements(queue') = Audio!Elements(queue)
    <3>1. ASSUME NEW x \in 1..n PROVE \E y \in 1..n : queue'[x] = queue[y]
      BY <2>3, <2>4, <2>6
    <3>2. ASSUME NEW x \in 1..n PROVE \E y \in 1..n : queue[x] = queue'[y]
      <4>1. queue'[h] = queue[i] /\ queue'[i] = queue[h] /\ (x # i /\ x # h => queue'[x] = queue[x])
        BY <2>3, <2>4, <2>6
      <4> QED  BY <2>3, <2>4, <4>1
    <3>3. Audio!Elements(queue') = {queue'[x] : x \in 1..n} /\ Audio!Elements(queue) = {queue[x] : x \in 1..n}
      BY <2>11, Zenon DEF Audio!Elements
    <3> QED  BY <3>1, <3>2, <3>3
  <2>10. UNCHANGED <<session, track, audioError>>
    BY <1>12 DEF Audio!MoveUp
  <2> QED  BY <1>0, <2>7, <2>8, <2>9, <2>10 DEF QueueInv, Sound
<1>13. CASE Audio!RetryAudio
  BY <1>2, <1>13 DEF Audio!RetryAudio, Audio!lists, QueueInv
<1>14. CASE Audio!PlayAudio \/ Audio!PauseAudio
  BY <1>1, <1>14 DEF Audio!PlayAudio, Audio!PauseAudio, Audio!lists
<1>15. CASE Audio!Ended
  <2> DEFINE next == IF repeat = "one" THEN track ELSE Audio!Neighbor(1)
  <2>1. UNCHANGED <<session, queue>> /\ (next = None => UNCHANGED <<track, audioError>>) /\ (next # None => track' = next /\ audioError' = None)
    BY <1>15 DEF Audio!Ended, Audio!lists
  <2>2. next # None => next \in Audio!Elements(queue)
    BY <1>3 DEF QueueInv
  <2> HIDE DEF next
  <2> QED  BY <1>0, <2>1, <2>2 DEF QueueInv
<1>16. ASSUME NEW r, Audio!SetRepeat(r) PROVE QueueInv'
  BY <1>1, <1>16 DEF Audio!SetRepeat
<1>17. ASSUME NEW p \in promises, Audio!PlayFails(p) \/ Audio!PlaySettles(p) PROVE QueueInv'
  BY <1>1, <1>17 DEF Audio!PlayFails, Audio!PlaySettles, Audio!lists
<1>18. CASE Audio!AudioEnds \/ Audio!LoadFails \/ Audio!VideoPlays \/ Audio!VideoPauses \/ Audio!AudioStarted \/ Audio!VideoStarted
  BY <1>1, <1>18 DEF Audio!AudioEnds, Audio!LoadFails, Audio!VideoPlays, Audio!VideoPauses, Audio!AudioStarted, Audio!VideoStarted, Audio!lists
<1>19. CASE Audio!MediaKey
  BY <1>9, <1>14, <1>19 DEF Audio!MediaKey
<1> QED  BY <1>4, <1>5, <1>6, <1>7, <1>8, <1>9, <1>10, <1>11, <1>12, <1>13, <1>14, <1>15, <1>16, <1>17, <1>18, <1>19 DEF Audio!Next

\* A play event that is not dispatched yet.
Pending(e) == \E i \in DOMAIN e : e[i] \in {"audio", "video"}

EventsInv ==
  /\ events \in Seq({"audio", "video", "ended"}) /\ audio \in BOOLEAN /\ video \in BOOLEAN
  /\ audio /\ video => Pending(events)

\* An event that joins the others.
LEMMA OneMore ==
  ASSUME NEW S, NEW e \in Seq(S), NEW x \in S
  PROVE  /\ Append(e, x) \in Seq(S) /\ (x \in {"audio", "video"} => Pending(Append(e, x)))
         /\ e \o <<x>> \in Seq(S) /\ (x \in {"audio", "video"} => Pending(e \o <<x>>))
         /\ e \o <<>> \in Seq(S)
<1>1. Append(e, x) \in Seq(S) /\ Len(e) + 1 \in DOMAIN Append(e, x) /\ Append(e, x)[Len(e) + 1] = x
  BY AppendProperties
<1>2. <<x>> \in Seq(S) /\ Len(<<x>>) = 1 /\ <<x>>[1] = x /\ Len(e) \in Nat /\ <<>> \in Seq(S)
  OBVIOUS
<1>3. PICK c : c = e \o <<x>>
  OBVIOUS
<1>4. c \in Seq(S) /\ Len(c) = Len(e) + 1 /\ c[Len(e) + 1] = x
  BY <1>2, <1>3, ConcatProperties
<1>5. Len(e) + 1 \in DOMAIN c
  BY <1>2, <1>4
<1>6. e \o <<>> \in Seq(S)
  BY <1>2, ConcatProperties
<1> QED  BY <1>1, <1>3, <1>4, <1>5, <1>6 DEF Pending

\* Dispatching an ended event, or another one that is about the same.
LEMMA OneLess ==
  ASSUME NEW S, NEW e \in Seq(S), e # <<>>
  PROVE  Tail(e) \in Seq(S) /\ (Pending(e) /\ Head(e) \notin {"audio", "video"} => Pending(Tail(e)))
<1>1. /\ Tail(e) \in Seq(S) /\ Len(Tail(e)) = Len(e) - 1 /\ Head(e) = e[1]
      /\ \A i \in 1..Len(Tail(e)) : Tail(e)[i] = e[i + 1]
  BY HeadTailProperties
<1>2. ASSUME Pending(e), Head(e) \notin {"audio", "video"} PROVE Pending(Tail(e))
  <2>1. PICK i \in DOMAIN e : e[i] \in {"audio", "video"}
    BY <1>2 DEF Pending
  <2>2. i # 1 /\ i \in 1..Len(e) /\ Len(e) \in Nat
    BY <1>1, <1>2, <2>1
  <2>3. i - 1 \in 1..Len(Tail(e)) /\ (i - 1) + 1 = i
    BY <1>1, <2>2
  <2>4. i - 1 \in DOMAIN Tail(e)
    BY <1>1, <2>3
  <2>5. Tail(e)[i - 1] = e[i]
    BY <1>1, <2>3
  <2> QED  BY <2>1, <2>4, <2>5 DEF Pending
<1> QED  BY <1>1, <1>2

\* useAudioElement.ts: while audio and video both play, an event that will pause one of
\* them is under way.
LEMMA EventsInvNext ==
  ASSUME EventsInv, Audio!Next \/ UNCHANGED ofAudio
  PROVE  EventsInv'
<1> DEFINE Kinds == {"audio", "video", "ended"}
<1>0. ASSUME events' \in Seq(Kinds), audio' \in BOOLEAN, video' \in BOOLEAN, audio' /\ video' => Pending(events')
      PROVE  EventsInv'
  BY <1>0, Zenon DEF EventsInv
<1>1. events \in Seq(Kinds) /\ audio \in BOOLEAN /\ video \in BOOLEAN /\ (audio /\ video => Pending(events))
  BY Zenon DEF EventsInv
<1>2. "audio" \in Kinds /\ "video" \in Kinds /\ "ended" \in Kinds
  OBVIOUS
<1>3. \A x \in Kinds : Append(events, x) \in Seq(Kinds) /\ (x \in {"audio", "video"} => Pending(Append(events, x)))
  <2> HIDE DEF Kinds
  <2> QED  BY <1>1, OneMore
<1>4. events # <<>> => Tail(events) \in Seq(Kinds) /\ (Pending(events) /\ Head(events) = "ended" => Pending(Tail(events)))
  <2> HIDE DEF Kinds
  <2> QED  BY <1>1, OneLess
<1>5. \A e \in Seq(Kinds) : LET r == Audio!Only(e, {"video"}) IN
        /\ r \in Seq(Kinds) /\ Append(r, "audio") \in Seq(Kinds) /\ Pending(Append(r, "audio"))
        /\ r \o <<"audio">> \in Seq(Kinds) /\ Pending(r \o <<"audio">>) /\ r \o <<>> \in Seq(Kinds)
  <2> HIDE DEF Kinds
  <2> SUFFICES ASSUME NEW e \in Seq(Kinds)
               PROVE  LET r == Audio!Only(e, {"video"}) IN
        /\ r \in Seq(Kinds) /\ Append(r, "audio") \in Seq(Kinds) /\ Pending(Append(r, "audio"))
        /\ r \o <<"audio">> \in Seq(Kinds) /\ Pending(r \o <<"audio">>) /\ r \o <<>> \in Seq(Kinds)
    OBVIOUS
  <2>1. Audio!Only(e, {"video"}) \in Seq(Kinds)
    BY OnlyKeeps
  <2> QED  BY <1>2, <2>1, OneMore
<1>6. ASSUME NEW next, NEW keep \in BOOLEAN, Audio!Load(next, keep), video' = video PROVE EventsInv'
  <2>1. audio' \in BOOLEAN
    BY <1>6 DEF Audio!Load
  <2>2. events' = Audio!Only(events, {"video"}) \o (IF audio' THEN <<"audio">> ELSE <<>>)
    BY <1>6 DEF Audio!Load
  <2> QED  BY <1>0, <1>1, <1>5, <1>6, <2>1, <2>2, Zenon
<1>7. ASSUME UNCHANGED <<events, video>>, audio' \in {audio, FALSE} PROVE EventsInv'
  BY <1>0, <1>1, <1>7, Zenon
<1>8. CASE UNCHANGED ofAudio
  BY <1>7, <1>8 DEF ofAudio
<1>9. ASSUME NEW s, NEW p, Audio!OpenSession(s, p) PROVE EventsInv'
  BY <1>6, <1>9 DEF Audio!OpenSession
<1>10. ASSUME NEW p, Audio!Select(p) PROVE EventsInv'
  BY <1>1, <1>6, <1>7, <1>10 DEF Audio!Select
<1>11. CASE Audio!RestoreQueue
  BY <1>6, <1>11 DEF Audio!RestoreQueue
<1>12. ASSUME NEW p, Audio!ChooseTrack(p) PROVE EventsInv'
  BY <1>1, <1>6, <1>12 DEF Audio!ChooseTrack, Audio!Choose
<1>13. ASSUME NEW d, Audio!Skip(d) PROVE EventsInv'
  BY <1>1, <1>6, <1>13 DEF Audio!Skip, Audio!Choose
<1>14. ASSUME NEW p, Audio!RemoveTrack(p) PROVE EventsInv'
  BY <1>1, <1>6, <1>7, <1>14 DEF Audio!RemoveTrack
<1>15. CASE Audio!RetryAudio
  BY <1>6, <1>15 DEF Audio!RetryAudio
<1>16. CASE Audio!PlayAudio
  BY <1>0, <1>1, <1>2, <1>3, <1>16 DEF Audio!PlayAudio
<1>17. CASE Audio!PauseAudio
  BY <1>7, <1>17 DEF Audio!PauseAudio
<1>18. CASE Audio!AudioEnds
  BY <1>0, <1>1, <1>2, <1>3, <1>18 DEF Audio!AudioEnds
<1>19. CASE Audio!VideoPlays
  BY <1>0, <1>1, <1>2, <1>3, <1>19 DEF Audio!VideoPlays
<1>20. CASE Audio!VideoPauses
  BY <1>0, <1>1, <1>20 DEF Audio!VideoPauses
<1>21. CASE Audio!AudioStarted
  BY <1>0, <1>1, <1>4, <1>21 DEF Audio!AudioStarted
<1>22. CASE Audio!VideoStarted
  BY <1>0, <1>1, <1>4, <1>22 DEF Audio!VideoStarted
<1>23. CASE Audio!Ended
  <2>1. video' = video /\ events # <<>> /\ Head(events) = "ended"
    BY <1>23 DEF Audio!Ended
  <2>2. \/ events' = Tail(events) /\ audio' = audio
        \/ events' = Tail(events) /\ audio' = TRUE /\ audio
        \/ events' = Append(Tail(events), "audio") /\ audio' = TRUE
        \/ events' = Append(Audio!Only(Tail(events), {"video"}), "audio") /\ audio' = TRUE
    BY <1>23 DEF Audio!Ended
  <2>3. Append(Tail(events), "audio") \in Seq(Kinds) /\ Pending(Append(Tail(events), "audio"))
    <3> HIDE DEF Kinds
    <3> QED  BY <1>2, <1>4, <2>1, OneMore
  <2>4. Tail(events) \in Seq(Kinds) /\ (Pending(events) => Pending(Tail(events)))
    BY <1>4, <2>1
  <2> HIDE DEF Kinds
  <2> QED  BY <1>0, <1>1, <1>5, <2>1, <2>2, <2>3, <2>4, Zenon
<1>24. ASSUME NEW r, Audio!SetRepeat(r) PROVE EventsInv'
  BY <1>7, <1>24 DEF Audio!SetRepeat
<1>25. ASSUME NEW p, Audio!PlayFails(p) \/ Audio!PlaySettles(p) PROVE EventsInv'
  BY <1>7, <1>25 DEF Audio!PlayFails, Audio!PlaySettles
<1>26. CASE Audio!LoadFails \/ Audio!ToggleShuffle \/ \E i : Audio!MoveUp(i)
  BY <1>7, <1>26 DEF Audio!LoadFails, Audio!ToggleShuffle, Audio!MoveUp
<1>27. CASE Audio!MediaKey
  BY <1>13, <1>16, <1>17, <1>27 DEF Audio!MediaKey
<1> QED  BY <1>8, <1>9, <1>10, <1>11, <1>12, <1>13, <1>14, <1>15, <1>16, <1>17, <1>18, <1>19, <1>20, <1>21,
            <1>22, <1>23, <1>24, <1>25, <1>26, <1>27 DEF Audio!Next

-----------------------------------------------------------------------------
(* The images.                                                             *)

\* Entries are made once: no two fetches and no two keys have the same, and none is
\* fetched that has its URL already.
Apart ==
  /\ \A f, g \in fetches : f.id = g.id => f = g
  /\ \A f \in fetches : f.id \notin urls
  /\ \A k, l \in Pictures!Keys : cached[k] = cached[l] /\ cached[k] # None => k = l

\* An entry that is cached has its URL or is on its way.
Alive ==
  \A k \in Pictures!Keys : cached[k] # None => cached[k] \in urls \/ \E f \in fetches : f.id = cached[k] /\ f.key = k

\* What the selection waits for is the entry of the selected image.
AwaitedIsSelected ==
  /\ image # None => owner # None
  /\ awaited # None => image # None /\ awaited = cached[<<owner, image>>] /\ awaited \notin urls

ImagesInv ==
  /\ owner \in Sessions \cup {None} /\ image \in Images \cup {None}
  /\ cached \in [Pictures!Keys -> Entries \cup {None}] /\ urls \subseteq Entries /\ fetches \subseteq Pictures!Fetch
  /\ Apart /\ Alive /\ AwaitedIsSelected
  /\ Pictures!UrlsAreOwned

\* useImagePreviewCache.ts: every step keeps the entries and URLs owned.
LEMMA ImagesInvNext ==
  ASSUME ImagesInv, Pictures!Next \/ UNCHANGED ofImages
  PROVE  ImagesInv'
<1> DEFINE Keys == Sessions \X Images
<1>0. None \notin Sessions \cup Images \cup Entries /\ "plain" \notin Entries /\ \A i \in Images : Near[i] \subseteq Images
  BY ClientConstants
<1>1. /\ Pictures!Keys = Keys /\ cached \in [Keys -> Entries \cup {None}] /\ urls \subseteq Entries
      /\ \A f \in fetches : f.id \in Entries /\ f.key \in Keys
      /\ owner # None /\ image # None => <<owner, image>> \in Keys
  BY DEF ImagesInv, Pictures!Keys, Pictures!Fetch
<1>2. CASE UNCHANGED ofImages
  BY <1>2 DEF ofImages, ImagesInv, Apart, Alive, AwaitedIsSelected, Pictures!UrlsAreOwned, Pictures!Keys
\* A fetch that the selection waits for is current.
<1>3. ASSUME NEW f \in fetches, awaited = f.id
      PROVE  cached[f.key] = f.id /\ f.key = <<owner, image>>
  <2>1. f.id # None /\ <<owner, image>> \in Keys /\ awaited = cached[<<owner, image>>] /\ awaited \notin urls
    BY <1>0, <1>1, <1>3 DEF ImagesInv, AwaitedIsSelected
  <2>2. PICK g \in fetches : g.id = awaited /\ g.key = <<owner, image>>
    BY <1>1, <1>3, <2>1 DEF ImagesInv, Alive
  <2>3. g = f
    BY <1>3, <2>2 DEF ImagesInv, Apart
  <2> QED  BY <1>3, <2>1, <2>2, <2>3
<1>4. ASSUME NEW s \in Sessions, NEW i \in Images, Pictures!Select(s, i), owner \in {None, s} PROVE ImagesInv'
  <2> DEFINE missing == {k \in Pictures!Want(s, i) : cached[k] = None}
  <2>1. PICK M : M = missing
    OBVIOUS
  <2>2. M \subseteq Keys /\ \A k \in M : cached[k] = None
    BY <1>0, <2>1 DEF Pictures!Want
  <2>3. <<s, i>> \in Keys /\ (cached[<<s, i>>] = None => <<s, i>> \in M)
    BY <2>1 DEF Pictures!Want
  <2>4. PICK fresh \in [M -> Pictures!Unused] :
          /\ \A k, l \in M : fresh[k] = fresh[l] => k = l
          /\ cached' = [k \in Keys |-> IF k \in M THEN fresh[k] ELSE cached[k]]
          /\ fetches' = fetches \cup {[id |-> fresh[k], key |-> k] : k \in M}
    <3>1. Pictures!Load(s, i)
      BY <1>4 DEF Pictures!Select
    <3>2. \E fresh \in [missing -> Pictures!Unused] :
            /\ \A k, l \in missing : fresh[k] = fresh[l] => k = l
            /\ cached' = [k \in Keys |-> IF k \in missing THEN fresh[k] ELSE cached[k]]
            /\ fetches' = fetches \cup {[id |-> fresh[k], key |-> k] : k \in missing}
      BY <3>1, Zenon DEF Pictures!Load, Pictures!Keys
    <3> HIDE DEF missing
    <3> QED  BY <2>1, <3>2, Zenon
  <2>5. \A e \in Pictures!Unused : e \in Entries /\ e \notin urls /\ (\A k \in Keys : cached[k] # e) /\ \A f \in fetches : f.id # e
    BY <1>1 DEF Pictures!Unused
  <2>6. \A k \in M : fresh[k] \in Entries /\ fresh[k] \notin urls /\ (\A l \in Keys : cached[l] # fresh[k]) /\ \A f \in fetches : f.id # fresh[k]
    BY <2>4, <2>5
  <2>7. \A k \in Keys : cached'[k] = IF k \in M THEN fresh[k] ELSE cached[k]
    BY <2>4
  <2>8. cached' \in [Keys -> Entries \cup {None}]
    BY <1>1, <2>4, <2>6
  <2>9. \A f \in fetches' : f \in fetches \/ \E k \in M : f = [id |-> fresh[k], key |-> k] /\ f.id = fresh[k] /\ f.key = k
    BY <2>4
  <2>10. fetches' \subseteq Pictures!Fetch
    BY <1>1, <2>2, <2>6, <2>9 DEF ImagesInv, Pictures!Fetch
  <2>11. /\ owner' = s /\ image' = i /\ urls' = urls
         /\ IF cached'[<<s, i>>] \in urls THEN imageSrc' = cached'[<<s, i>>] /\ awaited' = None
            ELSE awaited' = cached'[<<s, i>>] /\ imageSrc' = imageSrc
    BY <1>4, Zenon DEF Pictures!Select
  <2>12. cached'[<<s, i>>] # None
    BY <1>0, <2>3, <2>6, <2>7
  <2>13. Apart'
    <3>1. ASSUME NEW f \in fetches', NEW g \in fetches', f.id = g.id PROVE f = g
      <4>1. CASE f \in fetches /\ g \in fetches
        BY <3>1, <4>1 DEF ImagesInv, Apart
      <4>2. CASE f \notin fetches /\ g \notin fetches
        BY <2>4, <2>9, <3>1, <4>2
      <4>3. CASE f \in fetches /\ g \notin fetches
        BY <2>6, <2>9, <3>1, <4>3
      <4>4. CASE f \notin fetches /\ g \in fetches
        BY <2>6, <2>9, <3>1, <4>4
      <4> QED  BY <4>1, <4>2, <4>3, <4>4
    <3>2. \A f \in fetches' : f.id \notin urls'
      BY <2>6, <2>9, <2>11 DEF ImagesInv, Apart
    <3>3. ASSUME NEW k \in Keys, NEW l \in Keys, cached'[k] = cached'[l], cached'[k] # None PROVE k = l
      <4>1. CASE k \in M /\ l \in M
        BY <2>4, <2>7, <3>3, <4>1
      <4>2. CASE k \in M /\ l \notin M
        BY <2>6, <2>7, <3>3, <4>2
      <4>3. CASE k \notin M /\ l \in M
        BY <2>6, <2>7, <3>3, <4>3
      <4>4. CASE k \notin M /\ l \notin M
        BY <1>1, <2>7, <3>3, <4>4 DEF ImagesInv, Apart
      <4> QED  BY <4>1, <4>2, <4>3, <4>4
    <3>4. Pictures!Keys' = Keys
      BY DEF Pictures!Keys
    <3> QED  BY <3>1, <3>2, <3>3, <3>4 DEF Apart
  <2>14. Alive'
    <3>1. ASSUME NEW k \in Keys, cached'[k] # None
          PROVE  cached'[k] \in urls' \/ \E f \in fetches' : f.id = cached'[k] /\ f.key = k
      <4>1. CASE k \in M
        <5>1. PICK f : f = [id |-> fresh[k], key |-> k]
          OBVIOUS
        <5>2. f \in fetches' /\ f.id = fresh[k] /\ f.key = k
          BY <2>4, <4>1, <5>1
        <5> QED  BY <2>7, <4>1, <5>2
      <4>2. CASE k \notin M
        BY <1>1, <2>4, <2>7, <2>11, <3>1, <4>2 DEF ImagesInv, Alive
      <4> QED  BY <4>1, <4>2
    <3>2. Pictures!Keys' = Keys
      BY DEF Pictures!Keys
    <3> QED  BY <3>1, <3>2 DEF Alive
  <2>15. AwaitedIsSelected'
    BY <1>0, <2>11, <2>12 DEF AwaitedIsSelected
  <2>16. Pictures!UrlsAreOwned'
    <3>1. ASSUME NEW u \in urls' PROVE \E k \in Keys : u = cached'[k]
      <4>1. PICK k \in Keys : u = cached[k]
        BY <1>1, <2>11, <3>1 DEF ImagesInv, Pictures!UrlsAreOwned
      <4>2. u # None
        BY <1>0, <1>1, <2>11
      <4> QED  BY <2>2, <2>7, <4>1, <4>2
    <3>2. Pictures!Keys' = Keys
      BY DEF Pictures!Keys
    <3> QED  BY <2>11, <2>12, <3>1, <3>2 DEF Pictures!UrlsAreOwned
  <2>17. owner' \in Sessions \cup {None} /\ image' \in Images \cup {None} /\ urls' \subseteq Entries /\ Pictures!Keys' = Keys
    BY <1>1, <2>11 DEF Pictures!Keys
  <2> QED  BY <2>8, <2>10, <2>13, <2>14, <2>15, <2>16, <2>17 DEF ImagesInv, Pictures!Fetch, Pictures!Keys
<1>5. CASE Pictures!SelectOther
  BY <1>5 DEF Pictures!SelectOther, ImagesInv, Apart, Alive, AwaitedIsSelected, Pictures!UrlsAreOwned, Pictures!Keys
<1>6. CASE Pictures!Leave
  <2>1. /\ cached' = [k \in Keys |-> None] /\ fetches' = fetches /\ owner' = None /\ image' = None /\ awaited' = None
        /\ urls' = urls \ {cached[k] : k \in Keys}
    BY <1>1, <1>6 DEF Pictures!Leave
  <2>2. urls' = {}
    BY <1>1, <2>1 DEF ImagesInv, Pictures!UrlsAreOwned
  <2> QED  BY <2>1, <2>2 DEF ImagesInv, Apart, Alive, AwaitedIsSelected, Pictures!UrlsAreOwned, Pictures!Keys
<1>7. ASSUME NEW f \in fetches, Pictures!Arrives(f) PROVE ImagesInv'
  <2>1. /\ fetches' = fetches \ {f} /\ owner' = owner /\ image' = image /\ cached' = cached
        /\ urls' = (IF cached[f.key] = f.id THEN urls \cup {f.id} ELSE urls)
        /\ IF awaited = f.id THEN imageSrc' = f.id /\ awaited' = None ELSE imageSrc' = imageSrc /\ awaited' = awaited
    BY <1>3, <1>7 DEF Pictures!Arrives, Pictures!Current
  <2>2. urls' \subseteq Entries /\ urls \subseteq urls' /\ Pictures!Keys' = Keys /\ fetches' \subseteq Pictures!Fetch
    BY <1>1, <2>1 DEF ImagesInv, Pictures!Keys
  <2>3. Apart'
    BY <1>1, <2>1, <2>2 DEF ImagesInv, Apart
  <2>4. Alive'
    <3>1. ASSUME NEW k \in Keys, cached[k] # None
          PROVE  cached[k] \in urls' \/ \E g \in fetches' : g.id = cached[k] /\ g.key = k
      <4>1. cached[k] \in urls \/ \E g \in fetches : g.id = cached[k] /\ g.key = k
        BY <1>1, <3>1 DEF ImagesInv, Alive
      <4> QED  BY <2>1, <2>2, <4>1
    <3> QED  BY <2>1, <2>2, <3>1 DEF Alive
  <2>5. AwaitedIsSelected'
    <3>1. f.id # None
      BY <1>0, <1>1
    <3> QED  BY <2>1, <3>1 DEF ImagesInv, AwaitedIsSelected
  <2>6. Pictures!UrlsAreOwned'
    <3>1. urls' \subseteq {cached'[k] : k \in Keys}
      BY <1>1, <2>1 DEF ImagesInv, Pictures!UrlsAreOwned
    <3>2. ASSUME image' # None, awaited' = None PROVE imageSrc' = "plain" \/ (imageSrc' \in urls' /\ imageSrc' = cached'[<<owner', image'>>])
      <4>1. CASE awaited = f.id
        <5>1. cached[f.key] = f.id /\ f.key = <<owner, image>>
          BY <1>3, <4>1
        <5> QED  BY <2>1, <4>1, <5>1
      <4>2. CASE awaited # f.id
        BY <2>1, <2>2, <3>2, <4>2 DEF ImagesInv, Pictures!UrlsAreOwned
      <4> QED  BY <4>1, <4>2
    <3> QED  BY <2>2, <3>1, <3>2 DEF Pictures!UrlsAreOwned
  <2> QED  BY <1>1, <2>1, <2>2, <2>3, <2>4, <2>5, <2>6 DEF ImagesInv, Pictures!Fetch, Pictures!Keys
<1>8. ASSUME NEW f \in fetches, Pictures!Fails(f) PROVE ImagesInv'
  <2>1. /\ fetches' = fetches \ {f} /\ owner' = owner /\ image' = image /\ urls' = urls
        /\ cached' = (IF cached[f.key] = f.id THEN [cached EXCEPT ![f.key] = None] ELSE cached)
        /\ IF awaited = f.id THEN imageSrc' = "plain" /\ awaited' = None ELSE imageSrc' = imageSrc /\ awaited' = awaited
    BY <1>8 DEF Pictures!Fails, Pictures!Current
  <2>2. f.id # None /\ f.id \notin urls /\ f.key \in Keys
    BY <1>0, <1>1 DEF ImagesInv, Apart
  <2>3. /\ cached' \in [Keys -> Entries \cup {None}] /\ Pictures!Keys' = Keys /\ fetches' \subseteq Pictures!Fetch
        /\ \A k \in Keys : cached'[k] = IF cached[f.key] = f.id /\ k = f.key THEN None ELSE cached[k]
    BY <1>1, <2>1, <2>2 DEF ImagesInv, Pictures!Keys
  <2>4. Apart'
    BY <1>1, <2>1, <2>3 DEF ImagesInv, Apart
  <2>5. \A k \in Keys : cached[k] # f.id => cached'[k] = cached[k]
    BY <2>3
  <2>6. Alive'
    <3>1. ASSUME NEW k \in Keys, cached'[k] # None
          PROVE  cached'[k] \in urls' \/ \E g \in fetches' : g.id = cached'[k] /\ g.key = k
      <4>1. cached'[k] = cached[k] /\ ~(cached[f.key] = f.id /\ k = f.key)
        BY <2>3, <3>1
      <4>2. cached[k] \in urls \/ \E g \in fetches : g.id = cached[k] /\ g.key = k
        BY <1>1, <3>1, <4>1 DEF ImagesInv, Alive
      <4> QED  BY <2>1, <4>1, <4>2
    <3> QED  BY <2>1, <2>3, <3>1 DEF Alive
  <2>7. AwaitedIsSelected'
    <3>1. awaited' # None => awaited' = awaited /\ awaited # f.id
      BY <2>1
    <3>2. awaited # None => <<owner, image>> \in Keys /\ awaited = cached[<<owner, image>>] /\ awaited \notin urls /\ image # None
      BY <1>1 DEF ImagesInv, AwaitedIsSelected
    <3> QED  BY <2>1, <2>5, <3>1, <3>2 DEF ImagesInv, AwaitedIsSelected
  <2>8. Pictures!UrlsAreOwned'
    <3>1. ASSUME NEW u \in urls PROVE \E k \in Keys : u = cached'[k]
      <4>1. PICK k \in Keys : u = cached[k]
        BY <1>1, <3>1 DEF ImagesInv, Pictures!UrlsAreOwned
      <4> QED  BY <2>2, <2>5, <4>1
    <3>2. ASSUME image # None, awaited' = None, imageSrc' # "plain" PROVE imageSrc' \in urls /\ imageSrc' = cached'[<<owner, image>>]
      <4>1. awaited = None /\ imageSrc' = imageSrc
        BY <2>1, <2>2, <3>2
      <4>2. imageSrc \in urls /\ imageSrc = cached[<<owner, image>>] /\ <<owner, image>> \in Keys
        BY <1>1, <3>2, <4>1 DEF ImagesInv, Pictures!UrlsAreOwned, AwaitedIsSelected
      <4> QED  BY <2>2, <2>5, <4>1, <4>2
    <3> QED  BY <2>1, <2>3, <3>1, <3>2 DEF Pictures!UrlsAreOwned
  <2> QED  BY <2>1, <2>3, <2>4, <2>6, <2>7, <2>8 DEF ImagesInv, Pictures!Fetch, Pictures!Keys
<1> QED  BY <1>2, <1>4, <1>5, <1>6, <1>7, <1>8 DEF Pictures!Next, Pictures!Enter, Pictures!SelectImage, ImagesInv

-----------------------------------------------------------------------------
(* The pages of a text.                                                    *)

\* Only the page asked for now is on its way, and what came is a chunk of the page
\* it names.
TextInv ==
  /\ pending \subseteq {Text!Now} /\ \A r \in pending : r.owner # None
  /\ pending \subseteq Text!Page /\ page \in Text!Page /\ text \in Texts \cup {None}
  /\ result # None =>
       /\ result \in [page : Text!Page, chunk : (Texts \X Offsets) \cup {None}, failed : BOOLEAN]
       /\ result.chunk = None \/ result.chunk[1] = result.page.owner
       /\ ~result.failed => result.chunk = <<result.page.owner, result.page.offset>>
  /\ Text!PageIsAsked

\* useTextPreview.ts: every step keeps the one request that is due.
LEMMA TextInvNext ==
  ASSUME TextInv, Text!Next \/ UNCHANGED ofText
  PROVE  TextInv'
<1> DEFINE Result == [page : Text!Page, chunk : (Texts \X Offsets) \cup {None}, failed : BOOLEAN]
<1>0. None \notin Result
  BY ClientConstants
<1>1. CASE UNCHANGED ofText
  BY <1>1, Zenon DEF TextInv, ofText, Text!Now, Text!PageIsAsked, Text!Ours, Text!Current
<1>2. ASSUME NEW next \in Text!Page, Text!Ask(next), next = Text!Now', next.owner = text',
             text' \in Texts \cup {None}, page' \in Text!Page
      PROVE  TextInv'
  <2>1. CASE next.owner # None /\ <<next.owner, next.offset>> \in chunks
    <3> DEFINE read == [page |-> next, chunk |-> <<next.owner, next.offset>>, failed |-> FALSE]
    <3>1. next.owner \in Texts /\ next.offset \in Offsets
      BY <1>2, <2>1 DEF Text!Page
    <3>5. read \in Result
      BY <1>2, <3>1
    <3>2. read \in Result /\ read # None
      <4> HIDE DEF read, Result
      <4> QED  BY <1>0, <3>5
    <3>3. /\ read.page = next /\ read.chunk = <<next.owner, next.offset>> /\ read.failed = FALSE
          /\ read.chunk[1] = next.owner
      OBVIOUS
    <3>4. result' = read /\ pending' = {}
      BY <1>2, <2>1 DEF Text!Ask
    <3> HIDE DEF read
    <3> QED  BY <1>2, <3>2, <3>3, <3>4 DEF TextInv, Text!PageIsAsked, Text!Ours, Text!Current
  <2>2. CASE next.owner # None /\ <<next.owner, next.offset>> \notin chunks
    <3>1. result' = result /\ pending' = {next}
      BY <1>2, <2>2 DEF Text!Ask
    <3> QED  BY <1>2, <2>2, <3>1 DEF TextInv, Text!PageIsAsked, Text!Ours, Text!Current
  <2>3. CASE next.owner = None
    <3>1. result' = result /\ pending' = {}
      BY <1>2, <2>3 DEF Text!Ask
    <3> QED  BY <1>2, <2>3, <3>1 DEF TextInv, Text!PageIsAsked
  <2> QED  BY <2>1, <2>2, <2>3
<1>3. ASSUME NEW f \in Texts \cup {None}, Text!SelectText(f) PROVE TextInv'
  <2> DEFINE next == IF page.owner = f THEN page ELSE [owner |-> f, offset |-> 0, attempt |-> 0]
  <2>1. next \in Text!Page /\ next.owner = f
    BY ClientConstants DEF TextInv, Text!Page
  <2>2. Text!Ask(next) /\ text' = f /\ page' = page
    BY <1>3 DEF Text!SelectText
  <2>3. next = Text!Now'
    BY <2>2 DEF Text!Now
  <2> HIDE DEF next
  <2> QED  BY <1>2, <2>1, <2>2, <2>3 DEF TextInv
<1>4. ASSUME NEW offset \in Offsets, Text!LoadOffset(offset) PROVE TextInv'
  <2> DEFINE next == [owner |-> text, offset |-> offset, attempt |-> page.attempt + 1]
  <2>1. next \in Text!Page /\ next.owner = text
    BY <1>4, ClientConstants DEF TextInv, Text!Page, Text!LoadOffset
  <2>2. Text!Ask(next) /\ text' = text /\ page' = next
    BY <1>4 DEF Text!LoadOffset
  <2>3. next = Text!Now'
    BY <2>1, <2>2 DEF Text!Now
  <2> HIDE DEF next
  <2> QED  BY <1>2, <2>1, <2>2, <2>3 DEF TextInv
<1>5. CASE Text!Leave
  BY <1>5, ClientConstants DEF TextInv, Text!Leave, Text!Nothing, Text!Page, Text!PageIsAsked
<1>6. ASSUME NEW r \in pending, Text!Answered(r) \/ Text!Failed(r) PROVE TextInv'
  <2> DEFINE read == [page |-> r, chunk |-> <<r.owner, r.offset>>, failed |-> FALSE]
             missed == [page |-> r, chunk |-> Text!OwnChunk(r), failed |-> TRUE]
  <2>1. r = Text!Now /\ pending = {r} /\ pending' = {} /\ text' = text /\ page' = page /\ Text!Now' = Text!Now
    BY <1>6 DEF TextInv, Text!Answered, Text!Failed, Text!Now
  <2>2. result' = read \/ result' = missed
    BY <1>6 DEF Text!Answered, Text!Failed
  <2>3. r \in Text!Page /\ r.owner = text
    BY <2>1 DEF TextInv, Text!Now
  <2>4. text \in Texts /\ text # None /\ r.offset \in Offsets
    BY <2>3 DEF TextInv, Text!Page
  <2>5. Text!OwnChunk(r) \in (Texts \X Offsets) \cup {None} /\ (Text!OwnChunk(r) # None => Text!OwnChunk(r)[1] = text)
    BY <2>3, <2>4 DEF TextInv, Text!OwnChunk
  <2>6. CASE result' = read
    <3>1. /\ read \in Result
          /\ read.page = r /\ read.chunk = <<r.owner, r.offset>> /\ read.failed = FALSE
          /\ read.chunk[1] = text
      BY <2>3, <2>4
    <3> HIDE DEF read
    <3>2. read # None
      <4> HIDE DEF Result
      <4> QED  BY <1>0, <3>1
    <3> QED  BY <2>1, <2>3, <2>4, <2>6, <3>1, <3>2 DEF TextInv, Text!PageIsAsked, Text!Ours, Text!Current
  <2>7. CASE result' = missed
    <3>1. /\ missed \in Result
          /\ missed.page = r /\ missed.chunk = Text!OwnChunk(r) /\ missed.failed = TRUE
      BY <2>3, <2>5
    <3> HIDE DEF missed
    <3>2. missed # None
      <4> HIDE DEF Result
      <4> QED  BY <1>0, <3>1
    <3> QED  BY <2>1, <2>3, <2>4, <2>5, <2>7, <3>1, <3>2 DEF TextInv, Text!PageIsAsked, Text!Ours, Text!Current
  <2> QED  BY <2>2, <2>6, <2>7
<1> QED  BY <1>1, <1>3, <1>4, <1>5, <1>6 DEF Text!Next

-----------------------------------------------------------------------------
(* The captions.                                                           *)

\* One read at most is the newest; a newest read of a track is the one the menu
\* names, and nothing is shown until it ends.
CaptionsInv ==
  /\ reads \subseteq [of : Tracks \cup Locals, newest : BOOLEAN]
  /\ busy \in BOOLEAN
  /\ \A r, q \in reads : r.newest /\ q.newest => r = q
  /\ \A r \in reads : r.newest /\ r.of \in Tracks => entry = r.of /\ captions = None /\ native # "loading"
  /\ busy => entry \in Tracks
  /\ Captions!SubtitlesMatch

\* useVideoSubtitles.ts: every step keeps one newest read.
LEMMA CaptionsInvNext ==
  ASSUME CaptionsInv, Captions!Next \/ UNCHANGED ofCaptions
  PROVE  CaptionsInv'
<1>0. Tracks \cap Locals = {} /\ None \notin Tracks \cup Locals
  BY ClientConstants
<1> USE <1>0 DEF CaptionsInv, Captions!SubtitlesMatch
<1>1. CASE UNCHANGED ofCaptions
  BY <1>1 DEF ofCaptions
<1> DEFINE old == {[r EXCEPT !.newest = FALSE] : r \in reads}
<1>2. /\ \A r \in old : r \in [of : Tracks \cup Locals, newest : BOOLEAN] /\ ~r.newest
  <2> SUFFICES ASSUME NEW r \in old PROVE r \in [of : Tracks \cup Locals, newest : BOOLEAN] /\ ~r.newest
    BY Zenon
  <2>1. PICK q \in reads : r = [q EXCEPT !.newest = FALSE]
    BY Zenon
  <2>2. q \in [of : Tracks \cup Locals, newest : BOOLEAN]
    BY Zenon
  <2> HIDE DEF CaptionsInv, Captions!SubtitlesMatch, old
  <2> QED  BY <2>1, <2>2
<1> HIDE DEF old
<1>3. ASSUME NEW f \in Locals, Captions!LoadLocal(f) PROVE CaptionsInv'
  <2>1. reads' = old \cup {[of |-> f, newest |-> TRUE]}
    BY <1>3 DEF Captions!LoadLocal, Captions!Superseded, old
  <2> DEFINE new == [of |-> f, newest |-> TRUE]
  <2>2. new \in [of : Tracks \cup Locals, newest : BOOLEAN] /\ new.newest /\ new.of = f
    OBVIOUS
  <2>3. \A r \in reads' : r = new \/ (r \in old /\ ~r.newest)
    BY <1>2, <2>1
  <2>4. new \in reads' /\ new = [of |-> f, newest |-> TRUE]
    BY <2>1
  <2> HIDE DEF new
  <2> QED  BY <1>2, <1>3, <2>1, <2>2, <2>3, <2>4 DEF Captions!LoadLocal
<1>4. ASSUME NEW t \in Tracks, Captions!LoadEmbedded(t) PROVE CaptionsInv'
  <2>1. reads' = old \cup {[of |-> t, newest |-> TRUE]}
    BY <1>4 DEF Captions!LoadEmbedded, Captions!Superseded, old
  <2> DEFINE new == [of |-> t, newest |-> TRUE]
  <2>2. new \in [of : Tracks \cup Locals, newest : BOOLEAN] /\ new.newest /\ new.of = t
    OBVIOUS
  <2>3. \A r \in reads' : r = new \/ (r \in old /\ ~r.newest)
    BY <1>2, <2>1
  <2>4. new \in reads' /\ new = [of |-> t, newest |-> TRUE]
    BY <2>1
  <2> HIDE DEF new
  <2> QED  BY <1>2, <1>4, <2>1, <2>2, <2>3, <2>4 DEF Captions!LoadEmbedded
<1>5. CASE Captions!Remove
  <2>1. reads' = old
    BY <1>5 DEF Captions!Remove, Captions!Superseded, old
  <2> QED  BY <1>2, <1>5, <2>1 DEF Captions!Remove
<1>6. ASSUME NEW r \in reads, Captions!Read(r) \/ Captions!ReadFails(r) PROVE CaptionsInv'
  <2>1. r.newest => \A q \in reads' : ~q.newest
    BY <1>6 DEF Captions!Read, Captions!ReadFails
  <2>2. reads' \subseteq reads /\ \A q \in reads : q # r => q \in reads'
    BY <1>6 DEF Captions!Read, Captions!ReadFails
  <2>3. CASE ~r.newest
    BY <1>6, <2>2, <2>3 DEF Captions!Read, Captions!ReadFails, Captions!Counts
  <2>4. CASE r.newest /\ r.of \in Tracks
    BY <1>6, <2>1, <2>2, <2>4 DEF Captions!Read, Captions!ReadFails, Captions!Counts
  <2>5. CASE r.newest /\ r.of \in Locals
    <3>1. ~busy
      BY <2>5
    <3> QED  BY <1>6, <2>1, <2>2, <2>5, <3>1 DEF Captions!Read, Captions!ReadFails, Captions!Counts
  <2> QED  BY <2>3, <2>4, <2>5
<1>7. CASE Captions!TrackLoads \/ Captions!TrackFails
  BY <1>7 DEF Captions!TrackLoads, Captions!TrackFails
<1> QED  BY <1>1, <1>3, <1>4, <1>5, <1>6, <1>7 DEF Captions!Next

-----------------------------------------------------------------------------
(* The video player.                                                       *)

\* Only the selected file is attached; hls.js on its way finds nothing attached to it.
AttachedInv ==
  /\ file \in Videos \cup {None} /\ imports \subseteq {file} \ {None}
  /\ imports # {} => hls = None /\ videoSrc = None
  /\ manifest => hls # None
  /\ loaded \/ ready => file # None
  /\ Player!AttachedIsSelected

\* useVideoSource.ts: every step leaves nothing attached but the selected file.
LEMMA AttachedInvNext ==
  ASSUME AttachedInv, Player!Next \/ UNCHANGED ofPlayer
  PROVE  AttachedInv'
<1> USE DEF AttachedInv, Player!AttachedIsSelected, Player!selection, Player!attached, Player!media
<1>0. None \notin Videos
  BY ClientConstants
<1>1. CASE UNCHANGED ofPlayer
  BY <1>1 DEF ofPlayer
<1>2. ASSUME NEW f \in Videos \cup {None}, Player!Select(f) PROVE AttachedInv'
  BY <1>2 DEF Player!Select, Player!Detach, Player!Empty, Player!Cancelled
<1>3. ASSUME NEW q, Player!Attach(file, q), file' = file, file # None PROVE AttachedInv'
  BY <1>3 DEF Player!Attach, Player!Detach, Player!Empty
<1>4. ASSUME NEW q, Player!QualitiesLoaded(q) PROVE AttachedInv'
  BY <1>3, <1>4 DEF Player!QualitiesLoaded
<1>5. ASSUME NEW q, Player!ChangeQuality(q) PROVE AttachedInv'
  BY <1>3, <1>5 DEF Player!ChangeQuality
<1>6. ASSUME NEW f \in Videos, Player!HlsArrives(f) PROVE AttachedInv'
  BY <1>6 DEF Player!HlsArrives
<1>7. ASSUME NEW f \in Videos, Player!NativeHls(f) PROVE AttachedInv'
  BY <1>0, <1>7 DEF Player!NativeHls, Player!Empty
<1>8. CASE Player!ManifestParsed
  BY <1>8 DEF Player!ManifestParsed
<1>9. CASE Player!LoadedMetadata
  BY <1>9 DEF Player!LoadedMetadata
<1>10. CASE Player!Play \/ Player!Pause \/ Player!Ended \/ Player!PageHides
  BY <1>10 DEF Player!Play, Player!Pause, Player!Ended, Player!PageHides
<1>11. CASE Player!Retry \/ Player!Reload
  BY <1>11 DEF Player!Retry, Player!Reload, Player!Empty, Player!Detach
<1>12. ASSUME NEW t, Player!Move(t) PROVE AttachedInv'
  BY <1>12 DEF Player!Move
<1>13. ASSUME NEW restart \in BOOLEAN, Player!Choose(restart) PROVE AttachedInv'
  BY <1>13 DEF Player!Choose
<1> QED  BY <1>1, <1>2, <1>4, <1>5, <1>6, <1>7, <1>8, <1>9, <1>10, <1>11, <1>12, <1>13 DEF Player!Next

Resume == [key : Videos \cup {None}, offered : Player!Positions \cup {None}, snapshot : Player!Positions \cup {None},
           seek : Player!Positions \cup {None}, armed : BOOLEAN]

\* The handlers r speak of file f: they offer its saved position, and write one that
\* it was played at.
Fits(r, f, saved, played) ==
  /\ r.key = f
  /\ r.offered # None => f # None /\ r.snapshot = None /\ r.seek = None /\ saved[f] = r.offered
  /\ r.snapshot # None => f # None /\ r.snapshot \in played[f] \cup {0}
  /\ r.seek # None => f # None /\ r.seek \in played[f] \cup {0}

Saved == [Videos -> Player!Positions]
Played == [Videos -> SUBSET Player!Positions]
PlayedAt(saved, played) == \A f \in Videos : saved[f] \in played[f] \cup {0}

SavedInv ==
  /\ ready \in BOOLEAN /\ loaded \in BOOLEAN /\ playing \in BOOLEAN
  /\ time \in Player!Positions /\ start \in Player!Positions
  /\ restore # None => restore \in Player!Restore
  /\ resume \in Resume /\ stored \in Saved /\ reached \in Played
  /\ Fits(resume, file, stored, reached) /\ PlayedAt(stored, reached)
  /\ loaded => time \in reached[file]

\* Positions are numbers and no position is None; what is resumable is the position or 0.
LEMMA PositionsKnown ==
  /\ 0 \in Player!Positions /\ 1 \in Player!Positions /\ Player!Positions \subseteq Nat /\ None \notin Player!Positions
  /\ \A t \in Player!Positions : Player!Resumable(t) \in Player!Positions /\ Player!Resumable(t) \in {t, 0}
  /\ None \notin Videos
BY ClientConstants DEF Player!Positions, Player!Resumable

\* Handlers that capture the position of the element still speak of their file.
LEMMA CaptureFits ==
  ASSUME NEW r \in Resume, NEW t \in Player!Positions, NEW f, NEW saved, NEW played, Fits(r, f, saved, played),
         loaded => f # None /\ t \in played[f]
  PROVE  Player!Capture(r, t) \in Resume /\ Fits(Player!Capture(r, t), f, saved, played)
<1>1. Player!Resumable(t) \in Player!Positions /\ Player!Resumable(t) \in {t, 0} /\ None \notin Player!Positions
  BY PositionsKnown
<1>2. CASE Player!Capture(r, t) = r
  BY <1>2
<1>3. CASE r.offered = None /\ r.seek = None /\ loaded /\ Player!Capture(r, t) = [r EXCEPT !.snapshot = Player!Resumable(t)]
  <2>1. PICK q : q = [r EXCEPT !.snapshot = Player!Resumable(t)]
    OBVIOUS
  <2>2. q \in Resume /\ q.key = r.key /\ q.offered = r.offered /\ q.seek = r.seek /\ q.snapshot = Player!Resumable(t)
    BY <1>1, <2>1 DEF Resume
  <2>3. Fits(q, f, saved, played)
    BY <1>1, <1>3, <2>2 DEF Fits
  <2> QED  BY <1>3, <2>1, <2>2, <2>3
<1> QED  BY <1>2, <1>3 DEF Player!Capture

\* So do those that cleared their offer ...
LEMMA ClearedFits ==
  ASSUME NEW r \in Resume, NEW f, f # None, NEW saved, NEW played, Fits(r, f, saved, played)
  PROVE  Player!Cleared(r) \in Resume /\ Player!Cleared(r).offered = None /\ \A s : Fits(Player!Cleared(r), f, s, played)
<1>1. PICK q : q = [r EXCEPT !.offered = None, !.snapshot = 0]
  OBVIOUS
<1>2. q \in Resume /\ q.key = r.key /\ q.offered = None /\ q.seek = r.seek /\ q.snapshot = 0
  BY <1>1, PositionsKnown DEF Resume
<1>3. \A s : Fits(q, f, s, played)
  BY <1>2 DEF Fits
<1> QED  BY <1>1, <1>2, <1>3 DEF Player!Cleared

\* ... and those whose element has loaded its metadata.
LEMMA MetadataFits ==
  ASSUME NEW r \in Resume, NEW f, f # None, NEW saved, NEW played, Fits(r, f, saved, played)
  PROVE  Player!AtMetadata(r) \in Resume /\ Fits(Player!AtMetadata(r), f, saved, played)
<1>1. PICK offer : offer = IF r.offered = None THEN r ELSE IF Player!Resumable(r.offered) = 0 THEN Player!Cleared(r) ELSE r
  OBVIOUS
<1>2. offer \in Resume /\ Fits(offer, f, saved, played)
  BY <1>1, ClearedFits
<1>3. PICK armed : armed = [offer EXCEPT !.armed = TRUE]
  OBVIOUS
<1>4. /\ armed \in Resume /\ armed.key = offer.key /\ armed.offered = offer.offered
      /\ armed.snapshot = offer.snapshot /\ armed.seek = offer.seek
  BY <1>2, <1>3 DEF Resume
<1>5. Fits(armed, f, saved, played)
  BY <1>2, <1>4 DEF Fits
<1>6. CASE r.seek = None
  <2>1. Player!AtMetadata(r) = armed
    BY <1>1, <1>3, <1>6 DEF Player!AtMetadata
  <2> QED  BY <1>4, <1>5, <2>1
<1>7. CASE r.seek # None
  <2>1. PICK q : q = [armed EXCEPT !.snapshot = Player!Resumable(r.seek), !.seek = None]
    OBVIOUS
  <2>2. Player!AtMetadata(r) = q
    BY <1>1, <1>3, <1>7, <2>1 DEF Player!AtMetadata
  <2>3. r.seek \in Player!Positions /\ r.offered = None /\ r.seek \in played[f] \cup {0}
    BY <1>7 DEF Fits, Resume
  <2>4. Player!Resumable(r.seek) \in Player!Positions /\ Player!Resumable(r.seek) \in {r.seek, 0}
    BY <2>3, PositionsKnown
  <2>5. q \in Resume /\ q.key = f /\ q.offered = None /\ q.seek = None /\ q.snapshot = Player!Resumable(r.seek)
    <3>1. offer = r
      BY <1>1, <2>3
    <3>2. q \in Resume /\ q.key = armed.key /\ q.offered = armed.offered /\ q.seek = None /\ q.snapshot = Player!Resumable(r.seek)
      BY <1>4, <2>1, <2>4 DEF Resume
    <3> QED  BY <1>4, <2>3, <3>1, <3>2 DEF Fits
  <2>6. Fits(q, f, saved, played)
    BY <2>3, <2>4, <2>5 DEF Fits
  <2> QED  BY <2>2, <2>5, <2>6
<1> QED  BY <1>6, <1>7

\* Writing the handlers' position keeps what is saved to the files' own.
LEMMA WrittenFits ==
  ASSUME NEW r \in Resume, NEW f \in Videos \cup {None}, NEW played \in Played, stored \in Saved,
         Fits(r, f, stored, played), PlayedAt(stored, played)
  PROVE  /\ Player!Written(r) \in Saved /\ PlayedAt(Player!Written(r), played)
         /\ Fits(r, f, Player!Written(r), played)
<1>1. CASE f = None \/ r.snapshot = None
  <2>1. Player!Written(r) = stored
    BY <1>1 DEF Player!Written, Fits
  <2> QED  BY <2>1
<1>2. CASE f # None /\ r.snapshot # None
  <2>1. Player!Written(r) = [stored EXCEPT ![f] = r.snapshot]
    BY <1>2 DEF Player!Written, Fits
  <2>2. r.snapshot \in Player!Positions /\ r.snapshot \in played[f] \cup {0} /\ r.offered = None
    BY <1>2 DEF Fits, Resume
  <2>3. PICK w : w = [stored EXCEPT ![f] = r.snapshot]
    OBVIOUS
  <2>4. w \in Saved /\ \A g \in Videos : w[g] = IF g = f THEN r.snapshot ELSE stored[g]
    BY <2>2, <2>3 DEF Saved
  <2>5. PlayedAt(w, played)
    BY <2>2, <2>4 DEF PlayedAt
  <2>6. Fits(r, f, w, played)
    BY <2>2 DEF Fits
  <2> QED  BY <2>1, <2>3, <2>4, <2>5, <2>6
<1> QED  BY <1>1, <1>2

\* Playing at another position takes none away.
LEMMA PlayingOn ==
  ASSUME NEW played \in Played, NEW f \in Videos, NEW t \in Player!Positions
  PROVE  LET more == [played EXCEPT ![f] = @ \cup {t}] IN
         /\ more \in Played /\ t \in more[f]
         /\ \A saved : PlayedAt(saved, played) => PlayedAt(saved, more)
         /\ \A r, g, saved : g \in Videos \cup {None} /\ Fits(r, g, saved, played) => Fits(r, g, saved, more)
<1>1. PICK more : more = [played EXCEPT ![f] = @ \cup {t}]
  OBVIOUS
<1>2. more \in Played /\ \A g \in Videos : more[g] = IF g = f THEN played[g] \cup {t} ELSE played[g]
  BY <1>1 DEF Played
<1>3. \A g \in Videos : played[g] \subseteq more[g]
  BY <1>2
<1>4. \A saved : PlayedAt(saved, played) => PlayedAt(saved, more)
  BY <1>3 DEF PlayedAt
<1>5. ASSUME NEW r, NEW g \in Videos \cup {None}, NEW saved, Fits(r, g, saved, played) PROVE Fits(r, g, saved, more)
  BY <1>3, <1>5 DEF Fits
<1>6. t \in more[f]
  BY <1>2
<1> QED  BY <1>1, <1>2, <1>4, <1>5, <1>6

\* hls.js finds the position to restore until it has parsed its manifest.
RestoreWaits == imports # {} \/ (hls # None /\ ~manifest) => restore # None

\* useVideoSource.ts: every step leaves hls.js a position to restore.
LEMMA RestoreWaitsNext ==
  ASSUME SavedInv, AttachedInv, RestoreWaits, Player!Next \/ UNCHANGED ofPlayer
  PROVE  RestoreWaits'
<1> USE DEF RestoreWaits, Player!selection, Player!attached, Player!media
<1>1. CASE UNCHANGED ofPlayer
  BY <1>1 DEF ofPlayer
<1>2. ASSUME NEW f \in Videos \cup {None}, Player!Select(f) PROVE RestoreWaits'
  BY <1>2 DEF Player!Select, Player!Detach, Player!Cancelled
<1>3. ASSUME NEW q, Player!Attach(file, q) PROVE RestoreWaits'
  <2>1. PICK back : back = [time |-> IF source = file THEN Player!CurrentTime ELSE 0, playing |-> source = file /\ playing]
    OBVIOUS
  <2>2. restore' = back
    BY <1>3, <2>1 DEF Player!Attach
  <2>3. Player!CurrentTime \in Player!Positions /\ 0 \in Player!Positions
    BY PositionsKnown DEF SavedInv, Player!CurrentTime
  <2>4. back \in Player!Restore
    BY <2>1, <2>3 DEF Player!Restore
  <2>5. None \notin Player!Restore
    BY ClientConstants
  <2> QED  BY <2>2, <2>4, <2>5
<1>4. ASSUME NEW q, Player!QualitiesLoaded(q) \/ Player!ChangeQuality(q) PROVE RestoreWaits'
  BY <1>3, <1>4 DEF Player!QualitiesLoaded, Player!ChangeQuality
<1>5. ASSUME NEW f \in Videos, Player!HlsArrives(f) \/ Player!NativeHls(f) PROVE RestoreWaits'
  BY <1>5 DEF Player!HlsArrives, Player!NativeHls, AttachedInv
<1>6. CASE Player!ManifestParsed
  BY <1>6 DEF Player!ManifestParsed
<1>7. CASE Player!LoadedMetadata
  BY <1>7 DEF Player!LoadedMetadata, AttachedInv, Player!AttachedIsSelected
<1>8. CASE Player!Play \/ Player!Pause \/ Player!Ended \/ Player!PageHides \/ Player!Retry
  BY <1>8 DEF Player!Play, Player!Pause, Player!Ended, Player!PageHides, Player!Retry
<1>9. CASE Player!Reload
  BY <1>9 DEF Player!Reload, Player!Detach
<1>10. ASSUME NEW t, Player!Move(t) PROVE RestoreWaits'
  BY <1>10 DEF Player!Move
<1>11. ASSUME NEW restart, Player!Choose(restart) PROVE RestoreWaits'
  BY <1>11 DEF Player!Choose
<1> QED  BY <1>1, <1>2, <1>4, <1>5, <1>6, <1>7, <1>8, <1>9, <1>10, <1>11 DEF Player!Next

\* useVideoResume.ts: every step saves positions of their own file only.
LEMMA SavedInvNext ==
  ASSUME SavedInv, AttachedInv, RestoreWaits, Player!Next \/ UNCHANGED ofPlayer
  PROVE  SavedInv'
<1> USE DEF Player!selection, Player!attached, Player!media
<1> DEFINE Typed == /\ ready' \in BOOLEAN /\ loaded' \in BOOLEAN /\ playing' \in BOOLEAN
                    /\ time' \in Player!Positions /\ start' \in Player!Positions
                    /\ restore' # None => restore' \in Player!Restore
           Own == /\ resume' \in Resume /\ stored' \in Saved /\ reached' \in Played
                  /\ Fits(resume', file', stored', reached') /\ PlayedAt(stored', reached')
<1>0. ASSUME Typed, Own, loaded' => time' \in reached'[file'] PROVE SavedInv'
  BY <1>0 DEF SavedInv, Player!Positions, Player!Restore
<1>1. /\ ready \in BOOLEAN /\ loaded \in BOOLEAN /\ playing \in BOOLEAN
      /\ time \in Player!Positions /\ start \in Player!Positions
      /\ restore # None => restore \in Player!Restore
      /\ resume \in Resume /\ stored \in Saved /\ reached \in Played
      /\ Fits(resume, file, stored, reached) /\ PlayedAt(stored, reached)
      /\ loaded => time \in reached[file] /\ file # None
      /\ file \in Videos \cup {None}
  BY DEF SavedInv, AttachedInv
<1>2. ASSUME UNCHANGED <<file, resume, stored, reached>> PROVE Own
  BY <1>1, <1>2
<1>3. ASSUME NEW r \in Resume, NEW f \in Videos \cup {None}, Fits(r, file, stored, reached), UNCHANGED <<file, reached>>,
             resume' = r, stored' \in {stored, Player!Written(r)}
      PROVE  Own
  <2>1. Player!Written(r) \in Saved /\ PlayedAt(Player!Written(r), reached) /\ Fits(r, file, Player!Written(r), reached)
    BY <1>1, <1>3, WrittenFits
  <2> QED  BY <1>1, <1>3, <2>1
\* What is written when the file is left.
<1>4. /\ Player!Capture(resume, time) \in Resume /\ Fits(Player!Capture(resume, time), file, stored, reached)
      /\ Player!Written(Player!Capture(resume, time)) \in Saved
      /\ PlayedAt(Player!Written(Player!Capture(resume, time)), reached)
  <2>1. Player!Capture(resume, time) \in Resume /\ Fits(Player!Capture(resume, time), file, stored, reached)
    BY <1>1, CaptureFits
  <2> QED  BY <1>1, <2>1, WrittenFits
<1>5. None \notin Videos /\ 0 \in Player!Positions /\ None \notin Player!Positions
  BY PositionsKnown
<1>6. CASE UNCHANGED ofPlayer
  BY <1>0, <1>1, <1>2, <1>6 DEF ofPlayer
<1>7. ASSUME NEW f \in Videos \cup {None}, Player!Select(f) PROVE SavedInv'
  <2>1. /\ stored' = Player!Written(Player!Capture(resume, time)) /\ reached' = reached /\ file' = f
        /\ resume' = Player!Handlers(f, IF f = None THEN 0 ELSE stored'[f])
        /\ ready' = FALSE /\ loaded' = FALSE /\ time' = 0 /\ playing' = FALSE /\ start' = start /\ restore' = None
    BY <1>7 DEF Player!Select, Player!Empty
  <2>2. PICK saved : saved = IF f = None THEN 0 ELSE stored'[f]
    OBVIOUS
  <2>3. PICK offered, none : offered = (IF f = None \/ saved = 0 THEN None ELSE saved) /\ none = Player!NoResume
    OBVIOUS
  <2>4. resume' = [none EXCEPT !.key = f, !.offered = offered]
    <3>1. resume' = Player!Handlers(f, saved)
      BY <2>1, <2>2
    <3> QED  BY <2>3, <3>1 DEF Player!Handlers
  <2>5. offered \in Player!Positions \cup {None} /\ (offered # None => f # None /\ offered = stored'[f])
    BY <1>4, <2>1, <2>2, <2>3 DEF Saved
  <2>8. none \in Resume /\ none.snapshot = None /\ none.seek = None
    BY <2>3 DEF Player!NoResume, Resume
  <2>9. PICK q : q = [none EXCEPT !.key = f, !.offered = offered]
    OBVIOUS
  <2>6. q \in Resume /\ q.key = f /\ q.offered = offered /\ q.snapshot = None /\ q.seek = None
    BY <2>5, <2>8, <2>9 DEF Resume
  <2>7. Fits(q, f, stored', reached)
    BY <2>5, <2>6 DEF Fits
  <2> QED  BY <1>0, <1>1, <1>4, <1>5, <2>1, <2>4, <2>6, <2>7, <2>9
<1>8. ASSUME NEW q, Player!Attach(file, q), file' = file, UNCHANGED <<resume, stored, reached>>, ready' \in BOOLEAN PROVE SavedInv'
  <2>1. Player!CurrentTime \in Player!Positions
    BY <1>1 DEF Player!CurrentTime
  <2>2. PICK back : back = [time |-> IF source = file THEN Player!CurrentTime ELSE 0, playing |-> source = file /\ playing]
    OBVIOUS
  <2>3. back \in Player!Restore
    BY <1>1, <1>5, <2>1, <2>2 DEF Player!Restore
  <2>4. restore' = back /\ loaded' = FALSE /\ time' = 0 /\ playing' = FALSE /\ start' = start
    BY <1>8, <2>2 DEF Player!Attach, Player!Empty
  <2> QED  BY <1>0, <1>1, <1>2, <1>5, <1>8, <2>3, <2>4
<1>9. ASSUME NEW q, Player!QualitiesLoaded(q) \/ Player!ChangeQuality(q) PROVE SavedInv'
  BY <1>1, <1>8, <1>9 DEF Player!QualitiesLoaded, Player!ChangeQuality
<1>10. ASSUME NEW f, Player!HlsArrives(f) \/ Player!NativeHls(f) PROVE SavedInv'
  BY <1>0, <1>1, <1>2, <1>5, <1>10 DEF Player!HlsArrives, Player!NativeHls, Player!Empty
<1>12. CASE Player!Retry
  BY <1>0, <1>1, <1>2, <1>5, <1>12 DEF Player!Retry, Player!Empty
<1>13. CASE Player!Pause \/ Player!PageHides
  BY <1>0, <1>1, <1>3, <1>4, <1>13 DEF Player!Pause, Player!PageHides, Player!Flush
<1>14. CASE Player!Reload
  <2>1. /\ file' = None /\ ready' = FALSE /\ restore' = None /\ loaded' = FALSE /\ time' = 0 /\ playing' = FALSE
        /\ start' = 0 /\ resume' = Player!NoResume /\ reached' = reached
        /\ stored' \in {stored, Player!Written(Player!Capture(resume, time))}
    BY <1>14 DEF Player!Reload, Player!Empty
  <2>2. Player!NoResume \in Resume /\ Fits(Player!NoResume, None, stored', reached)
    BY DEF Player!NoResume, Resume, Fits
  <2> QED  BY <1>0, <1>1, <1>4, <1>5, <2>1, <2>2
<1>15. CASE Player!Ended
  <2>1. loaded /\ resume' = Player!Cleared(resume) /\ stored' = Player!Written(resume') /\ playing' = FALSE
        /\ UNCHANGED <<file, ready, restore, loaded, time, start, reached>>
    BY <1>15 DEF Player!Ended
  <2>2. Player!Cleared(resume) \in Resume /\ Fits(Player!Cleared(resume), file, stored, reached)
    BY <1>1, <2>1, ClearedFits
  <2> QED  BY <1>0, <1>1, <1>3, <2>1, <2>2
<1>16. CASE Player!Play
  <2>1. loaded /\ playing' = TRUE /\ UNCHANGED <<file, ready, restore, loaded, time, start, reached>>
    BY <1>16 DEF Player!Play
  <2>2. Own
    <3>1. CASE resume.offered = None
      BY <1>2, <1>16, <2>1, <3>1 DEF Player!Play
    <3>2. CASE resume.offered # None
      <4>1. PICK r : r = Player!Capture(Player!Cleared(resume), time)
        OBVIOUS
      <4>2. Player!Cleared(resume) \in Resume /\ Fits(Player!Cleared(resume), file, stored, reached)
        BY <1>1, <2>1, ClearedFits
      <4>3. r \in Resume /\ Fits(r, file, stored, reached)
        BY <1>1, <2>1, <4>1, <4>2, CaptureFits
      <4>4. resume' = r /\ stored' = Player!Written(r)
        BY <1>16, <3>2, <4>1 DEF Player!Play
      <4> QED  BY <1>1, <1>3, <2>1, <4>3, <4>4
    <3> QED  BY <3>1, <3>2
  <2> QED  BY <1>0, <1>1, <2>1, <2>2
<1>17. ASSUME NEW t \in Player!Positions, Player!Move(t) PROVE SavedInv'
  <2>1. /\ loaded /\ time' = t /\ reached' = [reached EXCEPT ![file] = @ \cup {t}] /\ resume' = Player!Capture(resume, t)
        /\ stored' \in {stored, Player!Written(resume')} /\ UNCHANGED <<file, ready, restore, loaded, start, playing>>
    BY <1>17 DEF Player!Move
  <2>2. PICK more : more = [reached EXCEPT ![file] = @ \cup {t}]
    OBVIOUS
  <2>3. more \in Played /\ t \in more[file] /\ PlayedAt(stored, more) /\ Fits(resume, file, stored, more)
    BY <1>1, <2>1, <2>2, PlayingOn
  <2>4. PICK r : r = Player!Capture(resume, t)
    OBVIOUS
  <2>5. r \in Resume /\ Fits(r, file, stored, more)
    BY <1>1, <2>1, <2>3, <2>4, CaptureFits
  <2>6. Player!Written(r) \in Saved /\ PlayedAt(Player!Written(r), more) /\ Fits(r, file, Player!Written(r), more)
    BY <1>1, <2>3, <2>5, WrittenFits
  <2>7. resume' = r /\ reached' = more /\ stored' \in {stored, Player!Written(r)}
    BY <2>1, <2>2, <2>4
  <2> QED  BY <1>0, <1>1, <2>1, <2>3, <2>5, <2>6, <2>7
<1>18. CASE Player!LoadedMetadata
  <2>1. /\ loaded' = TRUE /\ start' = 0 /\ restore' = None /\ resume' = Player!AtMetadata(resume)
        /\ stored' \in {stored, Player!Written(resume')} /\ UNCHANGED <<file, ready>>
        /\ reached' = [reached EXCEPT ![file] = @ \cup {time'}]
    BY <1>18 DEF Player!LoadedMetadata
  <2>2. file # None
    BY <1>18 DEF Player!LoadedMetadata, AttachedInv, Player!AttachedIsSelected
  <2>3. time' \in Player!Positions
    <3>1. resume.seek # None => Player!Resumable(resume.seek) \in Player!Positions
      BY <1>1, PositionsKnown DEF Resume
    <3>2. restore # None => restore.time \in Player!Positions
      BY <1>1 DEF Player!Restore
    <3>3. time' \in {restore.time, start, Player!Resumable(resume.seek)} /\ (time' = restore.time => restore # None \/ time' \in {start, Player!Resumable(resume.seek)})
          /\ (time' = Player!Resumable(resume.seek) => resume.seek # None \/ time' = start \/ (restore # None /\ time' = restore.time))
      BY <1>18 DEF Player!LoadedMetadata
    <3> QED  BY <1>1, <3>1, <3>2, <3>3
  <2>4. playing' \in BOOLEAN
    BY <1>1, <1>18 DEF Player!LoadedMetadata, Player!Restore
  <2>5. PICK t, more : t = time' /\ more = [reached EXCEPT ![file] = @ \cup {t}]
    OBVIOUS
  <2>6. more \in Played /\ t \in more[file] /\ PlayedAt(stored, more) /\ Fits(resume, file, stored, more)
    BY <1>1, <2>2, <2>3, <2>5, PlayingOn
  <2>7. PICK r : r = Player!AtMetadata(resume)
    OBVIOUS
  <2>8. r \in Resume /\ Fits(r, file, stored, more)
    BY <1>1, <2>2, <2>6, <2>7, MetadataFits
  <2>9. Player!Written(r) \in Saved /\ PlayedAt(Player!Written(r), more) /\ Fits(r, file, Player!Written(r), more)
    BY <1>1, <2>6, <2>8, WrittenFits
  <2>10. resume' = r /\ reached' = more /\ stored' \in {stored, Player!Written(r)}
    BY <2>1, <2>5, <2>7
  <2> QED  BY <1>0, <1>1, <1>5, <2>1, <2>3, <2>4, <2>5, <2>6, <2>8, <2>9, <2>10
<1>19. CASE Player!ManifestParsed
  <2>1. UNCHANGED <<file, ready, restore, loaded, time, resume, stored, reached>>
        /\ (start' = start \/ (start' = restore.time /\ restore.time > 0)) /\ playing' = (playing \/ restore.playing)
    BY <1>19 DEF Player!ManifestParsed
  <2>2. restore.time \in Player!Positions /\ restore.playing \in BOOLEAN
    BY <1>1, <1>19 DEF Player!ManifestParsed, RestoreWaits, Player!Restore
  <2> QED  BY <1>0, <1>1, <1>2, <2>1, <2>2
<1>20. ASSUME NEW restart \in BOOLEAN, Player!Choose(restart) PROVE SavedInv'
  <2>1. PICK to : to = IF restart THEN 0 ELSE resume.offered
    OBVIOUS
  <2>2. PICK chosen : chosen = [resume EXCEPT !.seek = to, !.offered = None, !.snapshot = to]
    OBVIOUS
  <2>3. PICK now : now = (resume.armed /\ loaded)
    OBVIOUS
  <2>4. /\ resume.offered # None /\ resume' = (IF now THEN Player!AtMetadata(chosen) ELSE chosen)
        /\ stored' = Player!Written(resume') /\ time' = (IF now THEN Player!Resumable(to) ELSE time)
        /\ playing' = (playing \/ now) /\ UNCHANGED <<file, ready, restore, loaded, start>>
        /\ reached' = (IF now THEN [reached EXCEPT ![file] = @ \cup {Player!Resumable(to)}] ELSE reached)
    BY <1>20, <2>1, <2>2, <2>3 DEF Player!Choose
  <2>5. file \in Videos /\ resume.key = file /\ stored[file] = resume.offered
    BY <1>1, <2>4 DEF Fits
  <2>6. to \in Player!Positions /\ to \in reached[file] \cup {0}
    BY <1>1, <1>5, <2>1, <2>4, <2>5 DEF PlayedAt, Resume
  <2>7. /\ chosen \in Resume /\ chosen.key = file /\ chosen.seek = to /\ chosen.offered = None /\ chosen.snapshot = to
    BY <1>1, <2>2, <2>5, <2>6 DEF Resume
  <2>8. Fits(chosen, file, stored, reached)
    BY <1>5, <2>5, <2>6, <2>7 DEF Fits
  <2>9. CASE now
    <3>1. PICK t, more : t = Player!Resumable(to) /\ more = [reached EXCEPT ![file] = @ \cup {t}]
      OBVIOUS
    <3>2. t \in Player!Positions
      BY <2>6, <3>1, PositionsKnown
    <3>3. more \in Played /\ t \in more[file] /\ PlayedAt(stored, more) /\ Fits(chosen, file, stored, more)
      BY <1>1, <2>5, <2>8, <3>1, <3>2, PlayingOn
    <3>4. PICK r : r = Player!AtMetadata(chosen)
      OBVIOUS
    <3>5. r \in Resume /\ Fits(r, file, stored, more)
      BY <1>1, <1>5, <2>5, <2>7, <3>3, <3>4, MetadataFits
    <3>6. Player!Written(r) \in Saved /\ PlayedAt(Player!Written(r), more) /\ Fits(r, file, Player!Written(r), more)
      BY <1>1, <3>3, <3>5, WrittenFits
    <3>7. resume' = r /\ reached' = more /\ stored' = Player!Written(r) /\ time' = t
      BY <2>4, <2>9, <3>1, <3>4
    <3> QED  BY <1>0, <1>1, <2>4, <3>2, <3>3, <3>5, <3>6, <3>7, <2>3
  <2>10. CASE ~now
    BY <1>0, <1>1, <1>3, <2>4, <2>7, <2>8, <2>10
  <2> QED  BY <2>9, <2>10
<1> QED  BY <1>6, <1>7, <1>9, <1>10, <1>12, <1>13, <1>14, <1>15, <1>16, <1>17, <1>18, <1>19, <1>20 DEF Player!Next

-----------------------------------------------------------------------------
(* The explorer tree.                                                     *)

\* A tree whose nodes have numbers up to N: those at or below a node have the numbers
\* low[node]..high[node], and one child comes after another.
Ordered(t, N, low, high) ==
  /\ N \in Nat /\ \A folder \in DOMAIN t : t[folder] \in Seq(Tree!Nodes(t))
  /\ low \in [Tree!Nodes(t) -> 1..N] /\ high \in [Tree!Nodes(t) -> 1..N]
  /\ Tree!Descends(t, low) /\ Tree!Spans(t, low, high)
  /\ \A folder, other \in DOMAIN t : folder # other => Tree!Range(t[folder]) \cap Tree!Range(t[other]) = {}

\* The rows of each node, given those of its children, and likewise what is kept.
RowsOfNode(t, opened, rows, node) ==
  IF Tree!HasChildren(t, node) /\ node \in opened
  THEN <<node>> \o Tree!FlattenSeq([i \in DOMAIN t[node] |-> rows[t[node][i]]])
  ELSE <<node>>
KeepsNode(t, files, keep, node) ==
  IF node \in DOMAIN t THEN \E i \in DOMAIN t[node] : keep[t[node][i]] ELSE node \in files

\* What the numbers say of a folder and its children.
LEMMA Kids ==
  ASSUME NEW t, NEW N, NEW low, NEW high, Ordered(t, N, low, high), NEW x \in DOMAIN t
  PROVE  /\ x \in Tree!Nodes(t) /\ DOMAIN t[x] = 1..Len(t[x]) /\ Len(t[x]) \in Nat
         /\ \A i \in DOMAIN t[x] :
              /\ t[x][i] \in Tree!Nodes(t)
              /\ low[x] < low[t[x][i]] /\ high[t[x][i]] <= high[x]
              /\ \A j \in DOMAIN t[x] : j < i => high[t[x][j]] < low[t[x][i]]
<1>1. t[x] \in Seq(Tree!Nodes(t))
  BY DEF Ordered
<1>2. \A i \in DOMAIN t[x] : low[x] < low[t[x][i]]
  BY DEF Ordered, Tree!Descends
<1>3. \A i \in DOMAIN t[x] : /\ high[t[x][i]] <= high[x]
                             /\ \A j \in DOMAIN t[x] : j < i => high[t[x][j]] < low[t[x][i]]
  BY DEF Ordered, Tree!Spans
<1>4. x \in Tree!Nodes(t)
  BY DEF Tree!Nodes
<1> QED  BY <1>1, <1>2, <1>3, <1>4

\* What they are.
LEMMA Numbers ==
  ASSUME NEW t, NEW N, NEW low, NEW high, Ordered(t, N, low, high), NEW x \in Tree!Nodes(t)
  PROVE  N \in Nat /\ low[x] \in 1..N /\ high[x] \in 1..N /\ low[x] <= high[x]
BY DEF Ordered, Tree!Spans

\* Children have greater numbers, so their rows are known first.
LEMMA SameRows ==
  ASSUME NEW t, NEW opened, NEW node, NEW g, NEW h,
         node \in DOMAIN t => \A i \in DOMAIN t[node] : g[t[node][i]] = h[t[node][i]]
  PROVE  RowsOfNode(t, opened, g, node) = RowsOfNode(t, opened, h, node)
<1>1. CASE Tree!HasChildren(t, node) /\ node \in opened
  <2>1. node \in DOMAIN t
    BY <1>1 DEF Tree!HasChildren
  <2>2. [i \in DOMAIN t[node] |-> g[t[node][i]]] = [i \in DOMAIN t[node] |-> h[t[node][i]]]
    BY <2>1
  <2> QED  BY <1>1, <2>2, Zenon DEF RowsOfNode
<1>2. CASE ~(Tree!HasChildren(t, node) /\ node \in opened)
  BY <1>2, Zenon DEF RowsOfNode
<1> QED  BY <1>1, <1>2

\* So the recursive function of the rows exists ...
LEMMA RowsExist ==
  ASSUME NEW t, NEW N, NEW low, NEW high, Ordered(t, N, low, high), NEW opened
  PROVE  \E rows : rows = [node \in Tree!Nodes(t) |-> RowsOfNode(t, opened, rows, node)]
<1> DEFINE nodes == Tree!Nodes(t)
           From(n) == \E h : \A node \in nodes : low[node] >= n => h[node] = RowsOfNode(t, opened, h, node)
           bad == {k \in 0..(N + 1) : ~From(N + 1 - k)}
<1>1. N \in Nat /\ \A node \in nodes : low[node] \in 1..N
  BY Numbers DEF Ordered
<1>2. \A node \in DOMAIN t : \A i \in DOMAIN t[node] : t[node][i] \in nodes /\ low[node] < low[t[node][i]]
  BY Kids
<1> HIDE DEF nodes
<1>3. bad = {}
  <2> SUFFICES ASSUME bad # {} PROVE FALSE
    OBVIOUS
  <2>1. PICK k \in bad : \A m \in Nat : m < k => m \notin bad
    <3>1. bad \in SUBSET Nat
      BY <1>1
    <3> HIDE DEF bad
    <3> QED  BY <3>1, LeastNatural
  <2>2. k \in 0..(N + 1) /\ ~From(N + 1 - k)
    BY <2>1
  <2>3. k # 0
    <3>1. From(N + 1)
      <4>1. \A node \in nodes : ~(low[node] >= N + 1)
        BY <1>1
      <4> QED  BY <4>1
    <3> QED  BY <1>1, <2>2, <3>1
  <2>4. PICK m \in Nat : m = N + 1 - k
    BY <1>1, <2>2
  <2>5. From(m + 1)
    <3>1. k - 1 \in Nat /\ k - 1 < k /\ k - 1 \in 0..(N + 1) /\ N + 1 - (k - 1) = m + 1
      BY <1>1, <2>2, <2>3, <2>4
    <3>2. k - 1 \notin bad
      BY <2>1, <3>1
    <3> QED  BY <3>1, <3>2
  <2>6. PICK h : \A node \in nodes : low[node] >= m + 1 => h[node] = RowsOfNode(t, opened, h, node)
    BY <2>5
  <2> DEFINE g == [node \in nodes |-> IF low[node] = m THEN RowsOfNode(t, opened, h, node) ELSE h[node]]
  <2>7. \A node \in nodes : g[node] = IF low[node] = m THEN RowsOfNode(t, opened, h, node) ELSE h[node]
    BY Zenon
  <2> HIDE DEF g
  <2>8. ASSUME NEW node \in nodes, low[node] >= m PROVE g[node] = RowsOfNode(t, opened, g, node)
    <3>1. ASSUME node \in DOMAIN t, NEW i \in DOMAIN t[node] PROVE g[t[node][i]] = h[t[node][i]]
      <4>1. t[node][i] \in nodes /\ low[t[node][i]] \in Nat /\ low[node] \in Nat /\ low[node] < low[t[node][i]]
        BY <1>1, <1>2, <3>1
      <4>2. low[t[node][i]] # m
        BY <2>8, <4>1
      <4> QED  BY <2>7, <4>1, <4>2
    <3>2. RowsOfNode(t, opened, g, node) = RowsOfNode(t, opened, h, node)
      BY <3>1, SameRows
    <3>3. low[node] # m => low[node] >= m + 1
      BY <1>1, <2>8
    <3>4. low[node] # m => h[node] = RowsOfNode(t, opened, h, node)
      BY <2>6, <3>3
    <3> QED  BY <2>7, <3>2, <3>4
  <2>9. From(m)
    BY <2>8
  <2> QED  BY <2>2, <2>4, <2>9
<1>4. From(0)
  <2>1. N + 1 \in 0..(N + 1) /\ N + 1 - (N + 1) = 0
    BY <1>1
  <2> HIDE DEF From
  <2> QED  BY <1>3, <2>1
<1>5. PICK h : \A node \in nodes : low[node] >= 0 => h[node] = RowsOfNode(t, opened, h, node)
  BY <1>4
<1>6. \A node \in nodes : h[node] = RowsOfNode(t, opened, h, node)
  BY <1>1, <1>5
<1> DEFINE w == [node \in nodes |-> h[node]]
<1>7. \A node \in nodes : w[node] = h[node]
  OBVIOUS
<1> HIDE DEF w
<1>8. ASSUME NEW node \in nodes PROVE h[node] = RowsOfNode(t, opened, w, node)
  <2>1. node \in DOMAIN t => \A i \in DOMAIN t[node] : w[t[node][i]] = h[t[node][i]]
    BY <1>2, <1>7
  <2>2. RowsOfNode(t, opened, w, node) = RowsOfNode(t, opened, h, node)
    BY <2>1, SameRows
  <2> QED  BY <1>6, <2>2
<1>9. w = [node \in nodes |-> RowsOfNode(t, opened, w, node)]
  BY <1>8 DEF w
<1> QED  BY <1>9 DEF nodes

\* ... and the rows on the page are those of the root by it.
LEMMA RowsFollow ==
  ASSUME NEW t, NEW N, NEW low, NEW high, Ordered(t, N, low, high), NEW opened
  PROVE  \E rows : /\ \A node \in Tree!Nodes(t) : rows[node] = RowsOfNode(t, opened, rows, node)
                   /\ Tree!flattenVisible(t, opened, Tree!Root) = rows[Tree!Root]
<1>1. PICK h : h = CHOOSE rows : rows = [node \in Tree!Nodes(t) |-> RowsOfNode(t, opened, rows, node)]
  OBVIOUS
<1>2. h = [node \in Tree!Nodes(t) |-> RowsOfNode(t, opened, h, node)]
  <2>1. \E rows : rows = [node \in Tree!Nodes(t) |-> RowsOfNode(t, opened, rows, node)]
    BY RowsExist
  <2> QED  BY <1>1, <2>1, Zenon
<1>3. \A node \in Tree!Nodes(t) : h[node] = RowsOfNode(t, opened, h, node)
  BY <1>2, Zenon
<1>4. Tree!flattenVisible(t, opened, Tree!Root) = h[Tree!Root]
  BY <1>1, Zenon DEF Tree!flattenVisible, RowsOfNode
<1> QED  BY <1>3, <1>4

\* Likewise the function of what is kept exists ...
LEMMA KeepExists ==
  ASSUME NEW t, NEW N, NEW low, NEW high, Ordered(t, N, low, high), NEW files
  PROVE  \E keep : keep = [node \in Tree!Nodes(t) |-> KeepsNode(t, files, keep, node)]
<1> DEFINE nodes == Tree!Nodes(t)
           From(n) == \E h : \A node \in nodes : low[node] >= n => h[node] = KeepsNode(t, files, h, node)
           bad == {k \in 0..(N + 1) : ~From(N + 1 - k)}
<1>1. N \in Nat /\ \A node \in nodes : low[node] \in 1..N
  BY Numbers DEF Ordered
<1>2. \A node \in DOMAIN t : \A i \in DOMAIN t[node] : t[node][i] \in nodes /\ low[node] < low[t[node][i]]
  BY Kids
<1> HIDE DEF nodes
<1>3. bad = {}
  <2> SUFFICES ASSUME bad # {} PROVE FALSE
    OBVIOUS
  <2>1. PICK k \in bad : \A m \in Nat : m < k => m \notin bad
    <3>1. bad \in SUBSET Nat
      BY <1>1
    <3> HIDE DEF bad
    <3> QED  BY <3>1, LeastNatural
  <2>2. k \in 0..(N + 1) /\ ~From(N + 1 - k)
    BY <2>1
  <2>3. k # 0
    <3>1. From(N + 1)
      <4>1. \A node \in nodes : ~(low[node] >= N + 1)
        BY <1>1
      <4> QED  BY <4>1
    <3> QED  BY <1>1, <2>2, <3>1
  <2>4. PICK m \in Nat : m = N + 1 - k
    BY <1>1, <2>2
  <2>5. From(m + 1)
    <3>1. k - 1 \in Nat /\ k - 1 < k /\ k - 1 \in 0..(N + 1) /\ N + 1 - (k - 1) = m + 1
      BY <1>1, <2>2, <2>3, <2>4
    <3>2. k - 1 \notin bad
      BY <2>1, <3>1
    <3> QED  BY <3>1, <3>2
  <2>6. PICK h : \A node \in nodes : low[node] >= m + 1 => h[node] = KeepsNode(t, files, h, node)
    BY <2>5
  <2> DEFINE g == [node \in nodes |-> IF low[node] = m THEN KeepsNode(t, files, h, node) ELSE h[node]]
  <2>7. \A node \in nodes : g[node] = IF low[node] = m THEN KeepsNode(t, files, h, node) ELSE h[node]
    BY Zenon
  <2> HIDE DEF g
  <2>8. ASSUME NEW node \in nodes, low[node] >= m PROVE g[node] = KeepsNode(t, files, g, node)
    <3>1. ASSUME node \in DOMAIN t, NEW i \in DOMAIN t[node] PROVE g[t[node][i]] = h[t[node][i]]
      <4>1. t[node][i] \in nodes /\ low[t[node][i]] \in Nat /\ low[node] \in Nat /\ low[node] < low[t[node][i]]
        BY <1>1, <1>2, <3>1
      <4>2. low[t[node][i]] # m
        BY <2>8, <4>1
      <4> QED  BY <2>7, <4>1, <4>2
    <3>2. KeepsNode(t, files, g, node) = KeepsNode(t, files, h, node)
      BY <3>1, Zenon DEF KeepsNode
    <3>3. low[node] # m => low[node] >= m + 1
      BY <1>1, <2>8
    <3>4. low[node] # m => h[node] = KeepsNode(t, files, h, node)
      BY <2>6, <3>3
    <3> QED  BY <2>7, <3>2, <3>4, Zenon
  <2>9. From(m)
    BY <2>8
  <2> QED  BY <2>2, <2>4, <2>9
<1>4. From(0)
  <2>1. N + 1 \in 0..(N + 1) /\ N + 1 - (N + 1) = 0
    BY <1>1
  <2> HIDE DEF From
  <2> QED  BY <1>3, <2>1
<1>5. PICK h : \A node \in nodes : low[node] >= 0 => h[node] = KeepsNode(t, files, h, node)
  BY <1>4
<1>6. \A node \in nodes : h[node] = KeepsNode(t, files, h, node)
  BY <1>1, <1>5
<1> DEFINE w == [node \in nodes |-> h[node]]
<1>7. \A node \in nodes : w[node] = h[node]
  OBVIOUS
<1> HIDE DEF w
<1>8. ASSUME NEW node \in nodes PROVE h[node] = KeepsNode(t, files, w, node)
  <2>1. node \in DOMAIN t => \A i \in DOMAIN t[node] : w[t[node][i]] = h[t[node][i]]
    BY <1>2, <1>7
  <2>2. KeepsNode(t, files, w, node) = KeepsNode(t, files, h, node)
    BY <2>1, Zenon DEF KeepsNode
  <2> QED  BY <1>6, <2>2
<1>9. w = [node \in nodes |-> KeepsNode(t, files, w, node)]
  BY <1>8 DEF w
<1> QED  BY <1>9 DEF nodes

\* ... so files of the filter are kept, and every folder above what is kept.
LEMMA KeptFollows ==
  ASSUME NEW t, NEW N, NEW low, NEW high, Ordered(t, N, low, high), NEW files
  PROVE  /\ Tree!Kept(t, files) \subseteq Tree!Nodes(t)
         /\ \A node \in Tree!Nodes(t) \ DOMAIN t : node \in files => node \in Tree!Kept(t, files)
         /\ \A folder \in DOMAIN t : \A i \in DOMAIN t[folder] :
              t[folder][i] \in Tree!Kept(t, files) => folder \in Tree!Kept(t, files)
<1>1. PICK h : h = CHOOSE keep : keep = [node \in Tree!Nodes(t) |-> KeepsNode(t, files, keep, node)]
  OBVIOUS
<1>2. h = [node \in Tree!Nodes(t) |-> KeepsNode(t, files, h, node)]
  <2>1. \E keep : keep = [node \in Tree!Nodes(t) |-> KeepsNode(t, files, keep, node)]
    BY KeepExists
  <2> QED  BY <1>1, <2>1, Zenon
<1>3. \A node \in Tree!Nodes(t) : h[node] = KeepsNode(t, files, h, node)
  BY <1>2, Zenon
<1>4. Tree!Kept(t, files) = {node \in Tree!Nodes(t) : h[node]}
  BY <1>1, Zenon DEF Tree!Kept, KeepsNode
<1>5. ASSUME NEW node \in Tree!Nodes(t), node \notin DOMAIN t, node \in files PROVE node \in Tree!Kept(t, files)
  BY <1>3, <1>4, <1>5, Zenon DEF KeepsNode
<1>6. ASSUME NEW folder \in DOMAIN t, NEW i \in DOMAIN t[folder], t[folder][i] \in Tree!Kept(t, files)
      PROVE  folder \in Tree!Kept(t, files)
  <2>1. folder \in Tree!Nodes(t)
    BY Kids
  <2>2. h[t[folder][i]]
    BY <1>4, <1>6, Zenon
  <2> QED  BY <1>3, <1>4, <2>1, <2>2, Zenon DEF KeepsNode
<1>7. Tree!Kept(t, files) \subseteq Tree!Nodes(t)
  BY <1>4, Zenon
<1> QED  BY <1>5, <1>6, <1>7, Zenon

\* A folder that shows its children.
Unfolded(t, opened, node) == Tree!HasChildren(t, node) /\ node \in opened

\* The rows r at and below a node: they begin with the node, follow the numbers of
\* the tree, go on below each folder that is open, and nowhere else.
RowsAt(t, opened, low, high, node, r) ==
  /\ r \in Seq(Tree!Nodes(t)) /\ 1 \in 1..Len(r) /\ r[1] = node
  /\ \A a \in 1..Len(r) : low[node] <= low[r[a]] /\ high[r[a]] <= high[node]
  /\ \A a, b \in 1..Len(r) : a < b => low[r[a]] < low[r[b]]
  /\ \A a \in 1..Len(r) : Unfolded(t, opened, r[a]) =>
       \A i \in DOMAIN t[r[a]] : \E b \in 1..Len(r) : r[b] = t[r[a]][i]
  /\ \A a \in 1..Len(r) : a # 1 =>
       \E b \in 1..Len(r) : Unfolded(t, opened, r[b]) /\ \E i \in DOMAIN t[r[b]] : r[a] = t[r[b]][i]

\* Rows that lie well below each child do so below their folder.
LEMMA RowsStep ==
  ASSUME NEW t, NEW N, NEW low, NEW high, Ordered(t, N, low, high), NEW opened, NEW rows, NEW node \in Tree!Nodes(t),
         rows[node] = RowsOfNode(t, opened, rows, node),
         node \in DOMAIN t => \A i \in DOMAIN t[node] : RowsAt(t, opened, low, high, t[node][i], rows[t[node][i]])
  PROVE  RowsAt(t, opened, low, high, node, rows[node])
<1> DEFINE nodes == Tree!Nodes(t)
<1>1. \A x \in nodes : low[x] \in Nat /\ high[x] \in Nat /\ low[x] <= high[x]
  BY Numbers
<1>2. CASE ~Unfolded(t, opened, node)
  <2>1. rows[node] = <<node>>
    BY <1>2, Zenon DEF Unfolded, RowsOfNode
  <2>2. \A a \in 1..1 : a = 1
    OBVIOUS
  <2>3. RowsAt(t, opened, low, high, node, <<node>>)
    BY <1>1, <1>2, <2>2 DEF RowsAt
  <2> QED  BY <2>1, <2>3
<1>3. CASE Unfolded(t, opened, node)
  <2>1. node \in DOMAIN t
    BY <1>3 DEF Unfolded, Tree!HasChildren
  <2>2. PICK n, kids : n = Len(t[node]) /\ kids = t[node]
    OBVIOUS
  <2>3. /\ n \in Nat /\ DOMAIN kids = 1..n
        /\ \A i \in 1..n : /\ kids[i] \in nodes /\ low[node] < low[kids[i]] /\ high[kids[i]] <= high[node]
                           /\ \A j \in 1..n : j < i => high[kids[j]] < low[kids[i]]
    BY <2>1, <2>2, Kids
  <2>4. PICK parts : parts = [i \in 1..n |-> rows[kids[i]]]
    OBVIOUS
  <2>5. \A i \in 1..n : RowsAt(t, opened, low, high, kids[i], parts[i])
    BY <2>1, <2>2, <2>3, <2>4
  <2>6. \A i \in 1..n :
          /\ parts[i] \in Seq(nodes) /\ 1 \in 1..Len(parts[i]) /\ parts[i][1] = kids[i]
          /\ \A a \in 1..Len(parts[i]) : low[kids[i]] <= low[parts[i][a]] /\ high[parts[i][a]] <= high[kids[i]]
          /\ \A a, b \in 1..Len(parts[i]) : a < b => low[parts[i][a]] < low[parts[i][b]]
    BY <2>5, Zenon DEF RowsAt
  <2>7. /\ \A i \in 1..n : \A a \in 1..Len(parts[i]) : Unfolded(t, opened, parts[i][a]) =>
             \A c \in DOMAIN t[parts[i][a]] : \E b \in 1..Len(parts[i]) : parts[i][b] = t[parts[i][a]][c]
        /\ \A i \in 1..n : \A a \in 1..Len(parts[i]) : a # 1 =>
             \E b \in 1..Len(parts[i]) : /\ Unfolded(t, opened, parts[i][b])
                                        /\ \E c \in DOMAIN t[parts[i][b]] : parts[i][a] = t[parts[i][b]][c]
    BY <2>5, Zenon DEF RowsAt
  <2>8. parts \in [1..n -> Seq(nodes)]
    BY <2>4, <2>6
  <2>9. PICK F : F = FlattenSeq(parts)
    OBVIOUS
  <2>10. PICK p, k : Lists(F, nodes, parts, n, p, k)
    BY <2>3, <2>8, <2>9, FlattenLists
  <2>11. PICK L \in Nat : L = Len(F)
    BY <2>10 DEF Lists
  <2>12. /\ F \in Seq(nodes)
         /\ \A a \in 1..L : p[a] \in 1..n /\ k[a] \in Nat /\ k[a] \in 1..Len(parts[p[a]]) /\ F[a] = parts[p[a]][k[a]]
         /\ \A a, b \in 1..L : a < b => p[a] < p[b] \/ (p[a] = p[b] /\ k[a] < k[b])
         /\ \A i \in 1..n : \A c \in 1..Len(parts[i]) : \E a \in 1..L : p[a] = i /\ k[a] = c
    <3>1. F \in Seq(nodes) /\ p \in [1..L -> 1..n] /\ k \in [1..L -> Nat]
      BY <2>10, <2>11, Zenon DEF Lists
    <3>2. \A a \in 1..L : p[a] \in 1..n /\ k[a] \in Nat
      BY <3>1
    <3>3. \A a \in 1..L : k[a] \in 1..Len(parts[p[a]]) /\ F[a] = parts[p[a]][k[a]]
      BY <2>10, <2>11, Zenon DEF Lists
    <3>4. \A a, b \in 1..L : a < b => p[a] < p[b] \/ (p[a] = p[b] /\ k[a] < k[b])
      BY <2>10, <2>11, Zenon DEF Lists
    <3>5. \A i \in 1..n : \A c \in 1..Len(parts[i]) : \E a \in 1..L : p[a] = i /\ k[a] = c
      BY <2>10, <2>11 DEF Lists
    <3> QED  BY <3>1, <3>2, <3>3, <3>4, <3>5, Zenon
  <2>13. PICK r : r = <<node>> \o F
    OBVIOUS
  <2>14. rows[node] = r
    <3>1. [i \in DOMAIN t[node] |-> rows[t[node][i]]] = parts
      BY <2>2, <2>3, <2>4
    <3>2. Tree!FlattenSeq(parts) = F
      BY <2>9 DEF Tree!FlattenSeq, FlattenSeq
    <3>3. rows[node] = <<node>> \o Tree!FlattenSeq([i \in DOMAIN t[node] |-> rows[t[node][i]]])
      BY <1>3, Zenon DEF Unfolded, RowsOfNode
    <3> QED  BY <2>13, <3>1, <3>2, <3>3
  <2>15. /\ r \in Seq(nodes) /\ Len(r) = L + 1 /\ r[1] = node
         /\ \A a \in 1..(L + 1) : a # 1 => a - 1 \in 1..L /\ r[a] = F[a - 1]
         /\ \A a \in 1..L : a + 1 \in 1..(L + 1) /\ r[a + 1] = F[a]
    <3>1. <<node>> \in Seq(nodes) /\ Len(<<node>>) = 1 /\ <<node>>[1] = node
      OBVIOUS
    <3>2. PICK one : one = <<node>>
      OBVIOUS
    <3> QED  BY <2>11, <2>12, <2>13, <3>1, <3>2
  <2>16. ASSUME NEW a \in 1..L
         PROVE  /\ F[a] \in nodes /\ low[node] < low[F[a]] /\ high[F[a]] <= high[node]
                /\ low[kids[p[a]]] <= low[F[a]] /\ high[F[a]] <= high[kids[p[a]]]
    <3>1. PICK i \in 1..n : i = p[a]
      BY <2>12
    <3>2. PICK c : c = k[a]
      OBVIOUS
    <3>3. c \in 1..Len(parts[i]) /\ F[a] = parts[i][c]
      BY <2>12, <3>1, <3>2
    <3>4. low[kids[i]] <= low[F[a]] /\ high[F[a]] <= high[kids[i]]
      BY <2>6, <3>3
    <3>5. F[a] \in nodes
      BY <2>11, <2>12
    <3>6. low[node] < low[kids[i]] /\ high[kids[i]] <= high[node] /\ kids[i] \in nodes
      BY <2>3
    <3> QED  BY <1>1, <3>1, <3>4, <3>5, <3>6
  <2>17. ASSUME NEW a \in 1..L, NEW b \in 1..L, a < b PROVE low[F[a]] < low[F[b]]
    <3>1. CASE p[a] = p[b] /\ k[a] < k[b]
      <4>1. PICK i \in 1..n : i = p[a]
        BY <2>12
      <4>2. k[a] \in 1..Len(parts[i]) /\ k[b] \in 1..Len(parts[i]) /\ F[a] = parts[i][k[a]] /\ F[b] = parts[i][k[b]]
        BY <2>12, <3>1, <4>1
      <4> QED  BY <2>6, <3>1, <4>2
    <3>2. CASE p[a] < p[b]
      <4>1. PICK i \in 1..n, j \in 1..n : i = p[a] /\ j = p[b]
        BY <2>12
      <4>2. high[kids[i]] < low[kids[j]] /\ kids[i] \in nodes /\ kids[j] \in nodes
        BY <2>3, <3>2, <4>1
      <4>3. high[F[a]] <= high[kids[i]] /\ low[kids[j]] <= low[F[b]] /\ F[a] \in nodes /\ F[b] \in nodes
        BY <2>16, <4>1
      <4>4. low[F[a]] <= high[F[a]]
        BY <1>1, <4>3
      <4> QED  BY <1>1, <4>2, <4>3, <4>4
    <3> QED  BY <2>12, <2>17, <3>1, <3>2
  <2>18. ASSUME NEW i \in 1..n, NEW c \in 1..Len(parts[i]) PROVE \E b \in 1..(L + 1) : b # 1 /\ r[b] = parts[i][c]
    <3>1. PICK a \in 1..L : p[a] = i /\ k[a] = c
      BY <2>12
    <3>2. F[a] = parts[i][c]
      BY <2>12, <3>1
    <3>3. a + 1 \in 1..(L + 1) /\ r[a + 1] = F[a] /\ a + 1 # 1
      BY <2>15
    <3> QED  BY <3>2, <3>3
  <2>19. ASSUME NEW a \in 1..(L + 1), a # 1
         PROVE  \E i \in 1..n : \E c \in 1..Len(parts[i]) : r[a] = parts[i][c]
    <3>1. PICK m \in 1..L : m = a - 1 /\ r[a] = F[m]
      BY <2>15, <2>19
    <3>2. p[m] \in 1..n /\ k[m] \in 1..Len(parts[p[m]]) /\ F[m] = parts[p[m]][k[m]]
      BY <2>12
    <3> QED  BY <3>1, <3>2
  <2>20. \A a \in 1..(L + 1) : low[node] <= low[r[a]] /\ high[r[a]] <= high[node]
    <3> SUFFICES ASSUME NEW a \in 1..(L + 1) PROVE low[node] <= low[r[a]] /\ high[r[a]] <= high[node]
      OBVIOUS
    <3>1. CASE a = 1
      BY <1>1, <2>15, <3>1
    <3>2. CASE a # 1
      <4>1. PICK m \in 1..L : r[a] = F[m]
        BY <2>15, <3>2
      <4>2. F[m] \in nodes /\ low[node] < low[F[m]] /\ high[F[m]] <= high[node]
        BY <2>16
      <4> QED  BY <1>1, <4>1, <4>2
    <3> QED  BY <3>1, <3>2
  <2>21. \A a, b \in 1..(L + 1) : a < b => low[r[a]] < low[r[b]]
    <3> SUFFICES ASSUME NEW a \in 1..(L + 1), NEW b \in 1..(L + 1), a < b PROVE low[r[a]] < low[r[b]]
      OBVIOUS
    <3>1. b # 1 /\ b - 1 \in 1..L /\ r[b] = F[b - 1]
      <4>1. b # 1
        OBVIOUS
      <4> QED  BY <2>15, <4>1
    <3>2. CASE a = 1
      BY <2>15, <2>16, <3>1, <3>2
    <3>3. CASE a # 1
      <4>1. a - 1 \in 1..L /\ r[a] = F[a - 1] /\ a - 1 < b - 1
        BY <2>15, <3>3
      <4> QED  BY <2>17, <3>1, <4>1
    <3> QED  BY <3>2, <3>3
  <2>22. \A a \in 1..(L + 1) : Unfolded(t, opened, r[a]) =>
           \A i \in DOMAIN t[r[a]] : \E b \in 1..(L + 1) : r[b] = t[r[a]][i]
    <3> SUFFICES ASSUME NEW a \in 1..(L + 1), Unfolded(t, opened, r[a]), NEW i \in DOMAIN t[r[a]]
                 PROVE  \E b \in 1..(L + 1) : r[b] = t[r[a]][i]
      OBVIOUS
    <3>1. CASE a = 1
      <4>1. i \in 1..n /\ t[r[a]][i] = parts[i][1] /\ 1 \in 1..Len(parts[i])
        BY <2>2, <2>3, <2>6, <2>15, <3>1
      <4> QED  BY <2>18, <4>1
    <3>2. CASE a # 1
      <4>1. PICK j \in 1..n : \E c \in 1..Len(parts[j]) : r[a] = parts[j][c]
        BY <2>19, <3>2
      <4>2. PICK c \in 1..Len(parts[j]) : r[a] = parts[j][c]
        BY <4>1
      <4>3. Unfolded(t, opened, parts[j][c]) /\ i \in DOMAIN t[parts[j][c]]
        BY <4>2
      <4>4. PICK b \in 1..Len(parts[j]) : parts[j][b] = t[parts[j][c]][i]
        BY <2>7, <4>3
      <4> QED  BY <2>18, <4>2, <4>4
    <3> QED  BY <3>1, <3>2
  <2>23. \A a \in 1..(L + 1) : a # 1 =>
           \E b \in 1..(L + 1) : Unfolded(t, opened, r[b]) /\ \E i \in DOMAIN t[r[b]] : r[a] = t[r[b]][i]
    <3> SUFFICES ASSUME NEW a \in 1..(L + 1), a # 1
                 PROVE  \E b \in 1..(L + 1) : Unfolded(t, opened, r[b]) /\ \E i \in DOMAIN t[r[b]] : r[a] = t[r[b]][i]
      OBVIOUS
    <3>1. PICK j \in 1..n : \E c \in 1..Len(parts[j]) : r[a] = parts[j][c]
      BY <2>19
    <3>2. PICK c \in 1..Len(parts[j]) : r[a] = parts[j][c]
      BY <3>1
    <3>3. CASE c = 1
      <4>1. r[a] = kids[j]
        BY <2>6, <3>2, <3>3
      <4>2. 1 \in 1..(L + 1) /\ r[1] = node /\ j \in DOMAIN t[node] /\ r[a] = t[node][j]
        BY <2>2, <2>3, <2>15, <4>1
      <4> QED  BY <1>3, <4>2
    <3>4. CASE c # 1
      <4>1. PICK d \in 1..Len(parts[j]) : /\ Unfolded(t, opened, parts[j][d])
                                         /\ \E i \in DOMAIN t[parts[j][d]] : parts[j][c] = t[parts[j][d]][i]
        BY <2>7, <3>4
      <4>2. PICK b \in 1..(L + 1) : r[b] = parts[j][d]
        BY <2>18
      <4> QED  BY <3>2, <4>1, <4>2
    <3> QED  BY <3>3, <3>4
  <2>24. 1 \in 1..(L + 1) /\ 1..Len(r) = 1..(L + 1)
    BY <2>11, <2>15
  <2>25. PICK I : I = 1..(L + 1) /\ I = 1..Len(r)
    BY <2>24
  <2>26. /\ \A a \in I : low[node] <= low[r[a]] /\ high[r[a]] <= high[node]
         /\ \A a, b \in I : a < b => low[r[a]] < low[r[b]]
    BY <2>20, <2>21, <2>25, Zenon
  <2>27. \A a \in I : Unfolded(t, opened, r[a]) => \A i \in DOMAIN t[r[a]] : \E b \in I : r[b] = t[r[a]][i]
    BY <2>22, <2>25, Zenon
  <2>28. \A a \in I : a # 1 => \E b \in I : Unfolded(t, opened, r[b]) /\ \E i \in DOMAIN t[r[b]] : r[a] = t[r[b]][i]
    BY <2>23, <2>25, Zenon
  <2>29. r \in Seq(nodes) /\ 1 \in I /\ r[1] = node
    BY <2>15, <2>24, <2>25, Zenon
  <2>30. RowsAt(t, opened, low, high, node, r)
    <3>1. /\ \A a \in 1..Len(r) : low[node] <= low[r[a]] /\ high[r[a]] <= high[node]
          /\ \A a, b \in 1..Len(r) : a < b => low[r[a]] < low[r[b]]
      BY <2>25, <2>26, Zenon
    <3>2. \A a \in 1..Len(r) : Unfolded(t, opened, r[a]) => \A i \in DOMAIN t[r[a]] : \E b \in 1..Len(r) : r[b] = t[r[a]][i]
      BY <2>25, <2>27, Zenon
    <3>3. \A a \in 1..Len(r) : a # 1 => \E b \in 1..Len(r) : Unfolded(t, opened, r[b]) /\ \E i \in DOMAIN t[r[b]] : r[a] = t[r[b]][i]
      BY <2>25, <2>28, Zenon
    <3>4. r \in Seq(Tree!Nodes(t)) /\ 1 \in 1..Len(r) /\ r[1] = node
      BY <2>25, <2>29, Zenon
    <3> QED  BY <3>1, <3>2, <3>3, <3>4, Zenon DEF RowsAt
  <2> QED  BY <2>14, <2>30
<1> QED  BY <1>2, <1>3

\* By the numbers of the nodes, the greatest first: they do below the root.
LEMMA RowsSound ==
  ASSUME NEW t, NEW N, NEW low, NEW high, Ordered(t, N, low, high), Tree!Root \in Tree!Nodes(t), NEW opened
  PROVE  RowsAt(t, opened, low, high, Tree!Root, Tree!flattenVisible(t, opened, Tree!Root))
<1> DEFINE nodes == Tree!Nodes(t)
<1>1. PICK rows : /\ \A node \in nodes : rows[node] = RowsOfNode(t, opened, rows, node)
                  /\ Tree!flattenVisible(t, opened, Tree!Root) = rows[Tree!Root]
  BY RowsFollow
<1>2. N \in Nat /\ \A node \in nodes : low[node] \in 1..N
  BY Numbers DEF Ordered
<1> DEFINE bad == {m \in Nat : \E node \in nodes : m = N - low[node] /\ ~RowsAt(t, opened, low, high, node, rows[node])}
<1>3. bad = {}
  <2> SUFFICES ASSUME bad # {} PROVE FALSE
    OBVIOUS
  <2>1. PICK m \in bad : \A l \in Nat : l < m => l \notin bad
    <3>1. bad \in SUBSET Nat
      OBVIOUS
    <3> HIDE DEF bad
    <3> QED  BY <3>1, LeastNatural
  <2>2. PICK node \in nodes : m = N - low[node] /\ ~RowsAt(t, opened, low, high, node, rows[node])
    BY <2>1
  <2>3. ASSUME node \in DOMAIN t, NEW i \in DOMAIN t[node] PROVE RowsAt(t, opened, low, high, t[node][i], rows[t[node][i]])
    <3>1. PICK kid : kid = t[node][i]
      OBVIOUS
    <3>2. kid \in nodes /\ low[node] < low[kid]
      BY <2>3, <3>1, Kids
    <3>3. PICK l \in Nat : l = N - low[kid]
      BY <1>2, <3>2
    <3>4. l < m
      BY <1>2, <2>2, <3>2, <3>3
    <3>5. l \notin bad
      BY <2>1, <3>4
    <3> QED  BY <3>1, <3>2, <3>3, <3>5
  <2>4. RowsAt(t, opened, low, high, node, rows[node])
    <3>1. node \in DOMAIN t => \A i \in DOMAIN t[node] : RowsAt(t, opened, low, high, t[node][i], rows[t[node][i]])
      BY <2>3
    <3>2. rows[node] = RowsOfNode(t, opened, rows, node)
      BY <1>1
    <3> HIDE DEF bad
    <3> QED  BY <3>1, <3>2, RowsStep
  <2> QED  BY <2>2, <2>4
<1>4. PICK m \in Nat : m = N - low[Tree!Root]
  BY <1>2
<1>5. RowsAt(t, opened, low, high, Tree!Root, rows[Tree!Root])
  <2>1. m \notin bad
    BY <1>3
  <2> QED  BY <1>4, <2>1
<1> QED  BY <1>1, <1>5

\* Folders of a filtered tree keep their children that are kept, in their order.
LEMMA FilteredKids ==
  ASSUME NEW t, NEW N, NEW low, NEW high, Ordered(t, N, low, high), NEW files, NEW folder \in DOMAIN Tree!Filtered(t, files)
  PROVE  LET q == t[folder]  r == Tree!Filtered(t, files)[folder] IN
         /\ folder \in DOMAIN t /\ folder \in Tree!Kept(t, files)
         /\ r \in Seq(Tree!Nodes(t))
         /\ \E m \in [1..Len(r) -> DOMAIN q] :
              (\A a, b \in 1..Len(r) : a < b => m[a] < m[b]) /\ \A a \in 1..Len(r) : r[a] = q[m[a]]
         /\ \A i \in DOMAIN q : q[i] \in Tree!Kept(t, files) => \E a \in 1..Len(r) : r[a] = q[i]
<1>1. PICK K : K = Tree!Kept(t, files)
  OBVIOUS
<1>2. PICK u : u = Tree!Filtered(t, files)
  OBVIOUS
<1>3. u = [x \in DOMAIN t \cap K |-> Tree!Only(t[x], K)]
  BY <1>1, <1>2, Zenon DEF Tree!Filtered
<1>4. folder \in DOMAIN u
  BY <1>2
<1>5. folder \in DOMAIN t /\ folder \in K /\ u[folder] = Tree!Only(t[folder], K)
  BY <1>3, <1>4
<1>6. PICK q : q = t[folder]
  OBVIOUS
<1>7. q \in Seq(Tree!Nodes(t))
  BY <1>5, <1>6 DEF Ordered
<1>8. PICK keep : keep = {i \in DOMAIN q : q[i] \in K}
  OBVIOUS
<1>9. PICK r : r = u[folder]
  OBVIOUS
<1>10. r = FlattenSeq(Filtering(q, keep))
  <2>1. Filtering(q, keep) = [i \in DOMAIN q |-> IF q[i] \in K THEN <<q[i]>> ELSE <<>>]
    BY <1>8 DEF Filtering
  <2>2. \A x : Tree!FlattenSeq(x) = FlattenSeq(x)
    BY DEF Tree!FlattenSeq, FlattenSeq
  <2> QED  BY <1>5, <1>6, <1>9, <2>1, <2>2 DEF Tree!Only
<1>11. r \in Seq(Tree!Nodes(t)) /\ Sublist(r, q, keep)
  BY <1>7, <1>10, SublistProperties
<1>12. PICK m \in [1..Len(r) -> DOMAIN q] :
         /\ \A a, b \in 1..Len(r) : a < b => m[a] < m[b]
         /\ \A a \in 1..Len(r) : m[a] \in keep /\ r[a] = q[m[a]]
         /\ \A i \in DOMAIN q : i \in keep => \E a \in 1..Len(r) : m[a] = i
  BY <1>11, Zenon DEF Sublist
<1>13. ASSUME NEW i \in DOMAIN q, q[i] \in K PROVE \E a \in 1..Len(r) : r[a] = q[i]
  <2>1. i \in keep
    BY <1>8, <1>13
  <2>2. PICK a \in 1..Len(r) : m[a] = i
    BY <1>12, <2>1
  <2> QED  BY <1>12, <2>2
<1>14. \E n \in [1..Len(r) -> DOMAIN q] :
         (\A a, b \in 1..Len(r) : a < b => n[a] < n[b]) /\ \A a \in 1..Len(r) : r[a] = q[n[a]]
  BY <1>12, Zenon
<1> QED  BY <1>1, <1>2, <1>5, <1>6, <1>9, <1>11, <1>13, <1>14, Zenon

\* A filtered tree has the numbers of the whole tree.
LEMMA FilteredOrdered ==
  ASSUME NEW t, NEW N, NEW low, NEW high, Ordered(t, N, low, high), NEW files
  PROVE  /\ Tree!Nodes(Tree!Filtered(t, files)) \subseteq Tree!Nodes(t)
         /\ \E l, h : Ordered(Tree!Filtered(t, files), N, l, h)
<1>1. PICK u : u = Tree!Filtered(t, files)
  OBVIOUS
<1> DEFINE nodes == Tree!Nodes(u)
           l == [x \in nodes |-> low[x]]
           h == [x \in nodes |-> high[x]]
<1>2. ASSUME NEW x \in DOMAIN u
      PROVE  /\ x \in DOMAIN t /\ u[x] \in Seq(Tree!Nodes(t))
             /\ \E m \in [1..Len(u[x]) -> DOMAIN t[x]] :
                  (\A a, b \in 1..Len(u[x]) : a < b => m[a] < m[b]) /\ \A a \in 1..Len(u[x]) : u[x][a] = t[x][m[a]]
  BY <1>1, <1>2, FilteredKids
<1>3. \A x \in DOMAIN u : Tree!Range(u[x]) \subseteq Tree!Range(t[x])
  <2> SUFFICES ASSUME NEW x \in DOMAIN u, NEW y \in Tree!Range(u[x]) PROVE y \in Tree!Range(t[x])
    OBVIOUS
  <2>1. DOMAIN u[x] = 1..Len(u[x])
    BY <1>2
  <2>2. PICK a \in 1..Len(u[x]) : y = u[x][a]
    BY <2>1 DEF Tree!Range
  <2>3. PICK m \in [1..Len(u[x]) -> DOMAIN t[x]] : \A b \in 1..Len(u[x]) : u[x][b] = t[x][m[b]]
    BY <1>2
  <2>4. m[a] \in DOMAIN t[x] /\ y = t[x][m[a]]
    BY <2>2, <2>3
  <2> QED  BY <2>4 DEF Tree!Range
<1>4. nodes \subseteq Tree!Nodes(t)
  <2>1. \A x \in DOMAIN u : x \in DOMAIN t
    BY <1>2
  <2> QED  BY <1>3, <2>1 DEF Tree!Nodes
<1>5. \A x \in DOMAIN u : u[x] \in Seq(nodes)
  <2> SUFFICES ASSUME NEW x \in DOMAIN u PROVE u[x] \in Seq(nodes)
    OBVIOUS
  <2>1. u[x] \in Seq(Tree!Nodes(t))
    BY <1>2
  <2>2. \A a \in DOMAIN u[x] : u[x][a] \in nodes
    BY DEF Tree!Nodes, Tree!Range
  <2> HIDE DEF nodes
  <2> QED  BY <2>1, <2>2
<1>6. N \in Nat /\ \A x \in nodes : low[x] \in 1..N /\ high[x] \in 1..N /\ low[x] <= high[x]
  <2>1. N \in Nat
    BY DEF Ordered
  <2> QED  BY <1>4, <2>1, Numbers
<1>7. l \in [nodes -> 1..N] /\ h \in [nodes -> 1..N] /\ \A x \in nodes : l[x] = low[x] /\ h[x] = high[x]
  BY <1>6
<1> HIDE DEF l, h
<1>8. ASSUME NEW x \in DOMAIN u, NEW i \in DOMAIN u[x]
      PROVE  /\ u[x][i] \in nodes /\ x \in nodes /\ low[x] < low[u[x][i]] /\ high[u[x][i]] <= high[x]
             /\ \A j \in DOMAIN u[x] : j < i => u[x][j] \in nodes /\ high[u[x][j]] < low[u[x][i]]
  <2>1. DOMAIN u[x] = 1..Len(u[x])
    BY <1>5
  <2>2. PICK m \in [1..Len(u[x]) -> DOMAIN t[x]] :
          (\A a, b \in 1..Len(u[x]) : a < b => m[a] < m[b]) /\ \A a \in 1..Len(u[x]) : u[x][a] = t[x][m[a]]
    BY <1>2
  <2>3. x \in DOMAIN t
    BY <1>2
  <2>4. \A k \in DOMAIN t[x] : /\ low[x] < low[t[x][k]] /\ high[t[x][k]] <= high[x]
                               /\ \A j \in DOMAIN t[x] : j < k => high[t[x][j]] < low[t[x][k]]
    BY <2>3, Kids
  <2>5. x \in nodes
    BY DEF Tree!Nodes
  <2>6. \A a \in DOMAIN u[x] : u[x][a] \in nodes
    BY <1>5
  <2>7. m[i] \in DOMAIN t[x] /\ u[x][i] = t[x][m[i]]
    BY <2>1, <2>2
  <2>8. ASSUME NEW j \in DOMAIN u[x], j < i PROVE high[u[x][j]] < low[u[x][i]]
    <3>1. m[j] \in DOMAIN t[x] /\ u[x][j] = t[x][m[j]] /\ m[j] < m[i]
      BY <2>1, <2>2, <2>8
    <3> QED  BY <2>4, <2>7, <3>1
  <2> HIDE DEF nodes
  <2> QED  BY <2>4, <2>5, <2>6, <2>7, <2>8
<1>9. Tree!Descends(u, l)
  BY <1>7, <1>8 DEF Tree!Descends
<1>10. Tree!Spans(u, l, h)
  BY <1>6, <1>7, <1>8 DEF Tree!Spans
<1>11. \A x, y \in DOMAIN u : x # y => Tree!Range(u[x]) \cap Tree!Range(u[y]) = {}
  <2> SUFFICES ASSUME NEW x \in DOMAIN u, NEW y \in DOMAIN u, x # y PROVE Tree!Range(u[x]) \cap Tree!Range(u[y]) = {}
    OBVIOUS
  <2>1. x \in DOMAIN t /\ y \in DOMAIN t
    BY <1>2
  <2>2. Tree!Range(t[x]) \cap Tree!Range(t[y]) = {}
    BY <2>1 DEF Ordered
  <2> QED  BY <1>3, <2>2
<1>12. Ordered(u, N, l, h)
  BY <1>5, <1>6, <1>7, <1>9, <1>10, <1>11 DEF Ordered
<1> QED  BY <1>1, <1>4, <1>12

\* The trees of the server can be numbered (explorerTree.ts) ...
LEMMA TreeOrdered ==
  ASSUME NEW t \in Trees
  PROVE  /\ Tree!Root \in DOMAIN t /\ None \notin Tree!Nodes(t) /\ \E N, low, high : Ordered(t, N, low, high)
         /\ \A node \in Tree!Nodes(t) \ {Tree!Root} : \E folder \in DOMAIN t : \E i \in DOMAIN t[folder] : node = t[folder][i]
<1>1. Tree!IsTree(t) /\ None \notin Tree!Nodes(t)
  BY ClientConstants
<1>2. /\ Tree!Root \in DOMAIN t /\ IsFiniteSet(Tree!Nodes(t))
      /\ \A folder \in DOMAIN t : t[folder] \in Seq(Tree!Nodes(t))
      /\ \A folder, other \in DOMAIN t : folder # other => Tree!Range(t[folder]) \cap Tree!Range(t[other]) = {}
  BY <1>1, Zenon DEF Tree!IsTree, Tree!IsFiniteSet, IsFiniteSet
<1>3. \A node \in Tree!Nodes(t) \ {Tree!Root} : \E folder \in DOMAIN t : node \in Tree!Range(t[folder])
  BY <1>1, Zenon DEF Tree!IsTree
<1>4. PICK N : N = Tree!Cardinality(Tree!Nodes(t))
  OBVIOUS
<1>5. N \in Nat
  <2>1. Tree!Cardinality(Tree!Nodes(t)) = Cardinality(Tree!Nodes(t))
    BY DEF Tree!Cardinality, Cardinality
  <2> QED  BY <1>2, <1>4, <2>1, FS_CardinalityType
<1>6. PICK low \in [Tree!Nodes(t) -> 1..N], high \in [Tree!Nodes(t) -> 1..N] : Tree!Descends(t, low) /\ Tree!Spans(t, low, high)
  BY <1>1, <1>4, Zenon DEF Tree!IsTree
<1>7. Ordered(t, N, low, high)
  BY <1>2, <1>5, <1>6, Zenon DEF Ordered
<1> QED  BY <1>1, <1>2, <1>3, <1>7, Zenon DEF Tree!Range

\* ... and so can those the page browses.
LEMMA BrowsedOrdered ==
  ASSUME NEW t \in Trees, NEW f \in Filters
  PROVE  LET u == Tree!Browsed(t, f) IN
         /\ Tree!Root \in DOMAIN u /\ Tree!Root \in Tree!Nodes(u) /\ None \notin Tree!Nodes(u)
         /\ \E N, low, high : Ordered(u, N, low, high)
<1>1. PICK N, low, high : Ordered(t, N, low, high)
  BY TreeOrdered
<1>2. Tree!Root \in DOMAIN t /\ None \notin Tree!Nodes(t)
  BY TreeOrdered
<1>3. CASE f # NoFilter /\ Tree!Displayed(t, f)
  <2>1. Tree!Browsed(t, f) = Tree!Filtered(t, f.matches)
    BY <1>3, Zenon DEF Tree!Browsed
  <2>2. Tree!Root \in Tree!Kept(t, f.matches)
    BY <1>3, Zenon DEF Tree!Displayed
  <2>3. Tree!Root \in DOMAIN Tree!Filtered(t, f.matches)
    BY <1>2, <2>2 DEF Tree!Filtered
  <2>4. /\ Tree!Nodes(Tree!Filtered(t, f.matches)) \subseteq Tree!Nodes(t)
        /\ \E l, h : Ordered(Tree!Filtered(t, f.matches), N, l, h)
    BY <1>1, FilteredOrdered
  <2> QED  BY <1>2, <2>1, <2>3, <2>4 DEF Tree!Nodes
<1>4. CASE ~(f # NoFilter /\ Tree!Displayed(t, f))
  <2>1. Tree!Browsed(t, f) = t
    BY <1>4, Zenon DEF Tree!Browsed
  <2> QED  BY <1>1, <1>2, <2>1 DEF Tree!Nodes
<1> QED  BY <1>3, <1>4

\* The rows of a tree and of the same tree with other folders open agree from the root
\* to x when they do so about the folders above it.
LEMMA SharedRows ==
  ASSUME NEW t, NEW N, NEW low, NEW high, Ordered(t, N, low, high), NEW one, NEW two, NEW r, NEW s,
         RowsAt(t, one, low, high, Tree!Root, r), RowsAt(t, two, low, high, Tree!Root, s),
         NEW x \in Tree!Nodes(t), \A y \in Tree!Nodes(t) : y # x => (y \in one <=> y \in two),
         NEW a \in 1..Len(r), low[r[a]] <= low[x]
  PROVE  \E b \in 1..Len(s) : s[b] = r[a]
<1> DEFINE bad == {k \in 1..Len(r) : low[r[k]] <= low[x] /\ ~\E b \in 1..Len(s) : s[b] = r[k]}
<1>1. Len(r) \in Nat /\ \A k \in 1..Len(r) : r[k] \in Tree!Nodes(t) /\ low[r[k]] \in Nat
  <2>1. r \in Seq(Tree!Nodes(t))
    BY DEF RowsAt
  <2> QED  BY <2>1, Numbers
<1>2. low[x] \in Nat
  BY Numbers
<1>3. bad = {}
  <2> SUFFICES ASSUME bad # {} PROVE FALSE
    OBVIOUS
  <2>1. PICK k \in bad : \A m \in Nat : m < k => m \notin bad
    <3>1. bad \in SUBSET Nat
      BY <1>1
    <3> HIDE DEF bad
    <3> QED  BY <3>1, LeastNatural
  <2>2. k \in 1..Len(r) /\ low[r[k]] <= low[x] /\ ~\E b \in 1..Len(s) : s[b] = r[k]
    BY <2>1
  <2>3. k # 1
    <3>1. r[1] = Tree!Root /\ 1 \in 1..Len(s) /\ s[1] = Tree!Root
      BY DEF RowsAt
    <3> QED  BY <2>2, <3>1
  <2>4. PICK m \in 1..Len(r) : Unfolded(t, one, r[m]) /\ \E i \in DOMAIN t[r[m]] : r[k] = t[r[m]][i]
    BY <2>2, <2>3, Zenon DEF RowsAt
  <2>5. PICK i \in DOMAIN t[r[m]] : r[k] = t[r[m]][i]
    BY <2>4
  <2>6. r[m] \in DOMAIN t
    BY <2>4 DEF Unfolded, Tree!HasChildren
  <2>7. low[r[m]] < low[r[k]]
    BY <2>5, <2>6, Kids
  <2>8. m < k
    <3>1. \A b, c \in 1..Len(r) : b < c => low[r[b]] < low[r[c]]
      BY DEF RowsAt
    <3>2. ~(k < m) /\ k # m
      BY <1>1, <2>2, <2>7, <3>1
    <3> QED  BY <1>1, <2>2, <3>2
  <2>9. m \notin bad /\ low[r[m]] <= low[x] /\ r[m] # x
    BY <1>1, <1>2, <2>1, <2>2, <2>7, <2>8
  <2>10. PICK c \in 1..Len(s) : s[c] = r[m]
    BY <2>9
  <2>11. Unfolded(t, two, s[c])
    <3>1. r[m] \in Tree!Nodes(t)
      BY <1>1
    <3> QED  BY <2>4, <2>9, <2>10, <3>1, Zenon DEF Unfolded
  <2>12. i \in DOMAIN t[s[c]]
    BY <2>10
  <2>13. PICK b \in 1..Len(s) : s[b] = t[s[c]][i]
    BY <2>11, <2>12, Zenon DEF RowsAt
  <2> QED  BY <2>2, <2>5, <2>10, <2>13
<1> QED  BY <1>3

\* Rows that agree up to x have x in the same place.
LEMMA SameIndex ==
  ASSUME NEW t, NEW N, NEW low, NEW high, Ordered(t, N, low, high), NEW one, NEW two, NEW r, NEW s,
         RowsAt(t, one, low, high, Tree!Root, r), RowsAt(t, two, low, high, Tree!Root, s),
         NEW i \in 1..Len(r), \A y \in Tree!Nodes(t) : y # r[i] => (y \in one <=> y \in two)
  PROVE  i \in 1..Len(s) /\ s[i] = r[i]
<1>1. PICK x : x = r[i]
  OBVIOUS
<1>2. /\ Len(r) \in Nat /\ (\A k \in 1..Len(r) : r[k] \in Tree!Nodes(t) /\ low[r[k]] \in Nat)
      /\ Len(s) \in Nat /\ (\A k \in 1..Len(s) : s[k] \in Tree!Nodes(t) /\ low[s[k]] \in Nat)
  <2>1. r \in Seq(Tree!Nodes(t)) /\ s \in Seq(Tree!Nodes(t))
    BY DEF RowsAt
  <2> QED  BY <2>1, Numbers
<1>3. /\ \A b, c \in 1..Len(r) : b < c => low[r[b]] < low[r[c]]
      /\ \A b, c \in 1..Len(s) : b < c => low[s[b]] < low[s[c]]
  BY DEF RowsAt
<1>4. x \in Tree!Nodes(t) /\ low[x] \in Nat /\ \A y \in Tree!Nodes(t) : y # x => (y \in one <=> y \in two)
  BY <1>1, <1>2
<1>5. \A a \in 1..Len(r) : low[r[a]] <= low[x] => \E b \in 1..Len(s) : s[b] = r[a]
  BY <1>4, SharedRows
<1>6. \A a \in 1..Len(s) : low[s[a]] <= low[x] => \E b \in 1..Len(r) : r[b] = s[a]
  <2>1. \A y \in Tree!Nodes(t) : y # x => (y \in two <=> y \in one)
    BY <1>4
  <2>2. ASSUME NEW a \in 1..Len(s), low[s[a]] <= low[x] PROVE \E b \in 1..Len(r) : r[b] = s[a]
    <3>1. x \in Tree!Nodes(t)
      BY <1>4
    <3> QED  BY <2>1, <2>2, <3>1, SharedRows
  <2> QED  BY <2>2
<1>7. \A k \in 1..i : k \in 1..Len(r) /\ low[r[k]] <= low[x]
  BY <1>1, <1>2, <1>3
<1> DEFINE bad == {k \in 1..i : ~(k \in 1..Len(s) /\ s[k] = r[k])}
<1>8. bad = {}
  <2> SUFFICES ASSUME bad # {} PROVE FALSE
    OBVIOUS
  <2>1. PICK k \in bad : \A m \in Nat : m < k => m \notin bad
    <3>1. bad \in SUBSET Nat
      BY <1>2
    <3> HIDE DEF bad
    <3> QED  BY <3>1, LeastNatural
  <2>2. k \in 1..i /\ k \in Nat /\ i \in Nat /\ ~(k \in 1..Len(s) /\ s[k] = r[k])
    BY <1>2, <2>1
  <2>3. \A m \in 1..i : m < k => m \in 1..Len(s) /\ s[m] = r[m]
    BY <2>1
  <2> HIDE DEF bad
  <2>4. k \in 1..Len(r) /\ low[r[k]] <= low[x]
    BY <1>7, <2>2
  <2>5. PICK b \in 1..Len(s) : s[b] = r[k]
    BY <1>5, <2>4
  <2>6. ~(b < k)
    <3> SUFFICES ASSUME b < k PROVE FALSE
      OBVIOUS
    <3>1. b \in 1..i /\ b \in 1..Len(r)
      BY <1>2, <2>2, <2>4
    <3>2. r[b] = r[k]
      BY <2>3, <2>5, <3>1
    <3>3. low[r[b]] < low[r[k]]
      BY <1>3, <2>4, <3>1
    <3> QED  BY <1>2, <2>4, <3>2, <3>3
  <2>7. k < b /\ k \in 1..Len(s)
    BY <1>2, <2>2, <2>5, <2>6
  <2>8. low[s[k]] < low[r[k]]
    BY <1>3, <2>5, <2>7
  <2>9. PICK a \in 1..Len(r) : r[a] = s[k]
    BY <1>2, <1>4, <1>6, <2>4, <2>7, <2>8
  <2>10. a < k
    <3>1. ~(k < a) /\ k # a
      BY <1>2, <1>3, <2>4, <2>8, <2>9
    <3> QED  BY <1>2, <2>4, <3>1
  <2>11. a \in 1..i /\ a \in 1..Len(s) /\ s[a] = r[a]
    BY <1>2, <2>2, <2>3, <2>9, <2>10
  <2>12. low[s[a]] < low[s[k]]
    BY <1>3, <2>7, <2>10, <2>11
  <2> QED  BY <1>2, <2>7, <2>9, <2>11, <2>12
<1>9. i \in 1..i
  BY <1>2
<1> QED  BY <1>8, <1>9

\* The rows r on the page: the root is the first, an open folder has its children on
\* the page, the first of them in the next row, and a row has its folder on the page.
RowsLie(u, shows, r) ==
  /\ r \in Seq(Tree!Nodes(u)) /\ 1 \in 1..Len(r) /\ r[1] = Tree!Root /\ None \notin Tree!Nodes(u)
  /\ \A a \in 1..Len(r) : Unfolded(u, shows, r[a]) =>
       \A i \in DOMAIN u[r[a]] : \E b \in 1..Len(r) : r[b] = u[r[a]][i]
  /\ \A a \in 1..Len(r) : Unfolded(u, shows, r[a]) => a + 1 \in 1..Len(r)
  /\ \A a \in 1..Len(r) : a # 1 => \E b \in 1..Len(r) : r[b] = Tree!Parent(u, r[a])

\* The rows on the page lie like this, for every tree, filter and set of open folders.
LEMMA RowsOnPage ==
  ASSUME NEW t \in Trees, NEW f \in Filters, NEW opened, NEW closed
  PROVE  RowsLie(Tree!Browsed(t, f), Tree!VisibleExpanded(t, f, opened, closed), Tree!RowsOf(t, f, opened, closed))
<1>1. PICK u, shows, r : /\ u = Tree!Browsed(t, f) /\ shows = Tree!VisibleExpanded(t, f, opened, closed)
                         /\ r = Tree!flattenVisible(u, shows, Tree!Root)
  OBVIOUS
<1>2. r = Tree!RowsOf(t, f, opened, closed)
  BY <1>1, Zenon DEF Tree!RowsOf
<1>3. Tree!Root \in Tree!Nodes(u) /\ None \notin Tree!Nodes(u) /\ \E N, low, high : Ordered(u, N, low, high)
  BY <1>1, BrowsedOrdered
<1>4. PICK N, low, high : Ordered(u, N, low, high)
  BY <1>3
<1>5. RowsAt(u, shows, low, high, Tree!Root, r)
  BY <1>1, <1>3, <1>4, RowsSound
<1>6. /\ r \in Seq(Tree!Nodes(u)) /\ 1 \in 1..Len(r) /\ r[1] = Tree!Root
      /\ \A a, b \in 1..Len(r) : a < b => low[r[a]] < low[r[b]]
  BY <1>5, Zenon DEF RowsAt
<1>7. /\ \A a \in 1..Len(r) : Unfolded(u, shows, r[a]) => \A i \in DOMAIN u[r[a]] : \E b \in 1..Len(r) : r[b] = u[r[a]][i]
      /\ \A a \in 1..Len(r) : a # 1 => \E b \in 1..Len(r) : Unfolded(u, shows, r[b]) /\ \E i \in DOMAIN u[r[b]] : r[a] = u[r[b]][i]
  BY <1>5, Zenon DEF RowsAt
<1>8. Len(r) \in Nat /\ \A a \in 1..Len(r) : r[a] \in Tree!Nodes(u) /\ low[r[a]] \in Nat
  BY <1>4, <1>6, Numbers
<1>9. ASSUME NEW a \in 1..Len(r), Unfolded(u, shows, r[a]) PROVE a + 1 \in 1..Len(r)
  <2>1. r[a] \in DOMAIN u /\ u[r[a]] # <<>>
    BY <1>9 DEF Unfolded, Tree!HasChildren
  <2>2. u[r[a]] \in Seq(Tree!Nodes(u)) /\ 1 \in DOMAIN u[r[a]]
    <3>1. u[r[a]] \in Seq(Tree!Nodes(u))
      BY <1>4, <2>1 DEF Ordered
    <3> QED  BY <2>1, <3>1
  <2>3. PICK b \in 1..Len(r) : r[b] = u[r[a]][1]
    BY <1>7, <1>9, <2>2
  <2>4. low[r[a]] < low[r[b]]
    BY <1>4, <2>1, <2>2, <2>3, Kids
  <2>5. ~(b < a) /\ b # a
    BY <1>6, <1>8, <2>4
  <2> QED  BY <1>8, <2>5
<1>10. ASSUME NEW a \in 1..Len(r), a # 1 PROVE \E b \in 1..Len(r) : r[b] = Tree!Parent(u, r[a])
  <2>1. PICK b \in 1..Len(r) : Unfolded(u, shows, r[b]) /\ \E i \in DOMAIN u[r[b]] : r[a] = u[r[b]][i]
    BY <1>7, <1>10
  <2>2. PICK p : p = Tree!Parent(u, r[a])
    OBVIOUS
  <2>3. r[b] \in DOMAIN u /\ \E i \in DOMAIN u[r[b]] : u[r[b]][i] = r[a]
    BY <2>1 DEF Unfolded, Tree!HasChildren
  <2>4. p \in DOMAIN u /\ \E i \in DOMAIN u[p] : u[p][i] = r[a]
    BY <2>2, <2>3, Zenon DEF Tree!Parent
  <2>5. r[a] \in Tree!Range(u[p]) \cap Tree!Range(u[r[b]])
    BY <2>3, <2>4 DEF Tree!Range
  <2>6. p = r[b]
    BY <1>4, <2>3, <2>4, <2>5, Zenon DEF Ordered
  <2> QED  BY <2>2, <2>6
<1>11. RowsLie(u, shows, r)
  BY <1>3, <1>6, <1>7, <1>9, <1>10, Zenon DEF RowsLie
<1> QED  BY <1>1, <1>2, <1>11

\* Sets that differ in x at most.
SameBut(one, two, x) == \A y : y # x => (y \in one <=> y \in two)

\* Opening or closing a folder leaves its own row in place.
LEMMA RowStays ==
  ASSUME NEW t \in Trees, NEW f \in Filters, NEW o1, NEW c1, NEW o2, NEW c2, NEW i,
         i \in 1..Len(Tree!RowsOf(t, f, o1, c1)),
         SameBut(o1, o2, Tree!RowsOf(t, f, o1, c1)[i]), SameBut(c1, c2, Tree!RowsOf(t, f, o1, c1)[i])
  PROVE  /\ i \in 1..Len(Tree!RowsOf(t, f, o2, c2))
         /\ Tree!RowsOf(t, f, o2, c2)[i] = Tree!RowsOf(t, f, o1, c1)[i]
<1>1. PICK u, v1, v2 : /\ u = Tree!Browsed(t, f) /\ v1 = Tree!VisibleExpanded(t, f, o1, c1) /\ v2 = Tree!VisibleExpanded(t, f, o2, c2)
  OBVIOUS
<1>2. PICK r, s : r = Tree!RowsOf(t, f, o1, c1) /\ s = Tree!RowsOf(t, f, o2, c2)
  OBVIOUS
<1>3. r = Tree!flattenVisible(u, v1, Tree!Root) /\ s = Tree!flattenVisible(u, v2, Tree!Root)
  BY <1>1, <1>2, Zenon DEF Tree!RowsOf
<1>4. Tree!Root \in Tree!Nodes(u) /\ \E N, low, high : Ordered(u, N, low, high)
  BY <1>1, BrowsedOrdered
<1>5. PICK N, low, high : Ordered(u, N, low, high)
  BY <1>4
<1>6. RowsAt(u, v1, low, high, Tree!Root, r) /\ RowsAt(u, v2, low, high, Tree!Root, s)
  BY <1>3, <1>4, <1>5, RowsSound
<1>7. \A y : y # r[i] => (y \in v1 <=> y \in v2)
  BY <1>1, <1>2 DEF Tree!VisibleExpanded, SameBut
<1> QED  BY <1>2, <1>5, <1>6, <1>7, SameIndex

\* A search that hides nothing it opened shows what it matches.
LEMMA SearchShows ==
  ASSUME NEW t \in Trees, NEW f \in Filters, f.query, Tree!Displayed(t, f), NEW opened,
         NEW folder \in DOMAIN t, NEW i \in DOMAIN t[folder], t[folder][i] \in f.matches
  PROVE  \E b \in 1..Len(Tree!RowsOf(t, f, opened, {})) : Tree!RowsOf(t, f, opened, {})[b] = t[folder][i]
<1>1. PICK N, low, high : Ordered(t, N, low, high)
  BY TreeOrdered
<1>2. PICK u, r, K : u = Tree!Filtered(t, f.matches) /\ r = Tree!RowsOf(t, f, opened, {}) /\ K = Tree!Kept(t, f.matches)
  OBVIOUS
<1>3. f # NoFilter
  BY ClientConstants
<1>4. Tree!Browsed(t, f) = u /\ Tree!Root \in K
  BY <1>2, <1>3, Zenon DEF Tree!Browsed, Tree!Displayed
<1>5. Tree!VisibleExpanded(t, f, opened, {}) = DOMAIN u
  BY <1>4 DEF Tree!VisibleExpanded
<1>6. /\ 1 \in 1..Len(r) /\ r[1] = Tree!Root
      /\ \A a \in 1..Len(r) : Unfolded(u, DOMAIN u, r[a]) => \A k \in DOMAIN u[r[a]] : \E b \in 1..Len(r) : r[b] = u[r[a]][k]
  <2>1. RowsLie(u, DOMAIN u, r)
    BY <1>2, <1>4, <1>5, RowsOnPage
  <2> QED  BY <2>1, Zenon DEF RowsLie
<1>7. N \in Nat /\ \A x \in Tree!Nodes(t) : low[x] \in 1..N
  BY <1>1, Numbers DEF Ordered
<1> DEFINE Shown(x) == \E b \in 1..Len(r) : r[b] = x
           bad == {m \in Nat : \E x \in K : low[x] = m /\ ~Shown(x)}
<1>8. bad = {}
  <2> SUFFICES ASSUME bad # {} PROVE FALSE
    OBVIOUS
  <2>1. PICK m \in bad : \A l \in Nat : l < m => l \notin bad
    <3>1. bad \in SUBSET Nat
      OBVIOUS
    <3> HIDE DEF bad
    <3> QED  BY <3>1, LeastNatural
  <2>2. PICK x \in K : low[x] = m /\ ~Shown(x)
    BY <2>1
  <2>3. x \in Tree!Nodes(t) /\ x # Tree!Root
    BY <1>1, <1>2, <1>6, <2>2, KeptFollows
  <2>4. PICK y \in DOMAIN t : \E k \in DOMAIN t[y] : x = t[y][k]
    BY <2>3, TreeOrdered
  <2>5. PICK k \in DOMAIN t[y] : x = t[y][k]
    BY <2>4
  <2>6. y \in K
    BY <1>1, <1>2, <2>2, <2>5, KeptFollows
  <2>7. low[y] < low[x] /\ low[y] \in Nat /\ low[x] \in Nat
    <3>1. y \in Tree!Nodes(t) /\ low[y] < low[x]
      BY <1>1, <2>5, Kids
    <3> QED  BY <1>7, <2>3, <3>1
  <2>8. Shown(y)
    <3>1. low[y] \notin bad
      BY <2>1, <2>2, <2>7
    <3> QED  BY <2>6, <2>7, <3>1
  <2>9. PICK b \in 1..Len(r) : r[b] = y
    BY <2>8
  <2>10. y \in DOMAIN u
    BY <1>2, <2>6 DEF Tree!Filtered
  <2>11. PICK a \in 1..Len(u[y]) : u[y][a] = x
    BY <1>1, <1>2, <2>2, <2>5, <2>10, FilteredKids
  <2>12. DOMAIN u[y] = 1..Len(u[y])
    BY <1>1, <1>2, <2>10, FilteredKids
  <2>13. Unfolded(u, DOMAIN u, r[b])
    <3>1. u[y] # <<>>
      BY <2>11, <2>12
    <3> QED  BY <2>9, <2>10, <3>1 DEF Unfolded, Tree!HasChildren
  <2>14. a \in DOMAIN u[r[b]]
    BY <2>9, <2>11, <2>12
  <2>15. Shown(u[r[b]][a])
    BY <1>6, <2>13, <2>14
  <2> QED  BY <2>2, <2>9, <2>11, <2>15
<1>9. PICK x : x = t[folder][i]
  OBVIOUS
<1>10. x \in K /\ x \in Tree!Nodes(t)
  <2>1. x \in Tree!Nodes(t)
    BY <1>1, <1>9, Kids
  <2>2. x \notin DOMAIN t
    BY <1>9, ClientConstants
  <2> QED  BY <1>1, <1>2, <1>9, <2>1, <2>2, KeptFollows
<1>11. low[x] \in Nat /\ low[x] \notin bad
  BY <1>7, <1>8, <1>10
<1>12. Shown(x)
  BY <1>10, <1>11
<1> QED  BY <1>2, <1>9, <1>12

\* The tab stop is a row, the row of the focus unless the rows changed under it; what a
\* search closed is known since the folders were touched, and the folders of the tree
\* are as before the search.
NavigationInv ==
  /\ tree \in Trees /\ filter \in Filters /\ moved \in BOOLEAN /\ touched \in BOOLEAN
  /\ active \in 1..Len(Tree!Rows)
  /\ focused # None /\ ~moved => Tree!Rows[active] = focused
  /\ filter.query /\ ~touched => collapsed = {}
  /\ Tree!SearchRestores

\* The same of the rows on the page now.
LEMMA PageRows ==
  ASSUME tree \in Trees, filter \in Filters
  PROVE  RowsLie(Tree!Here, Tree!Open, Tree!Rows)
BY RowsOnPage, Zenon DEF Tree!Here, Tree!Open, Tree!Rows

\* A search that closed nothing shows all it matches.
LEMMA MatchesAreShown ==
  ASSUME NavigationInv
  PROVE  Tree!MatchesShown
<1> SUFFICES ASSUME filter.query, ~touched, Tree!Displayed(tree, filter), NEW folder \in DOMAIN tree, NEW i \in DOMAIN tree[folder],
                    tree[folder][i] \in filter.matches
             PROVE  tree[folder][i] \in Tree!Range(Tree!Rows)
  BY Zenon DEF Tree!MatchesShown
<1>1. tree \in Trees /\ filter \in Filters /\ collapsed = {}
  BY DEF NavigationInv
<1>2. \E b \in 1..Len(Tree!Rows) : Tree!Rows[b] = tree[folder][i]
  BY <1>1, SearchShows DEF Tree!Rows
<1>3. RowsLie(Tree!Here, Tree!Open, Tree!Rows)
  BY <1>1, PageRows
<1>4. DOMAIN Tree!Rows = 1..Len(Tree!Rows)
  BY <1>3 DEF RowsLie
<1> QED  BY <1>2, <1>4 DEF Tree!Range

\* A folder that is opened or closed keeps its row.
LEMMA ToggledRowStays ==
  ASSUME NavigationInv, NEW i \in 1..Len(Tree!Rows), NEW x, x = Tree!Rows[i], Tree!toggleExpanded(x), Tree!Settled
  PROVE  /\ tree' = tree /\ filter' = filter /\ touched' = TRUE
         /\ i \in 1..Len(Tree!Rows') /\ Tree!Rows'[i] = x
         /\ Tree!SearchRestores'
<1>1. tree' = tree /\ filter' = filter /\ before' = before /\ touched' = TRUE
  BY DEF Tree!Settled, Tree!toggleExpanded
<1>2. SameBut(expanded, expanded', x) /\ SameBut(collapsed, collapsed', x) /\ (filter.query => expanded' = expanded)
  BY DEF Tree!toggleExpanded, Tree!Flip, SameBut
<1>3. Tree!Rows = Tree!RowsOf(tree, filter, expanded, collapsed) /\ Tree!Rows' = Tree!RowsOf(tree, filter, expanded', collapsed')
  BY <1>1 DEF Tree!Rows
<1>4. tree \in Trees /\ filter \in Filters /\ Tree!SearchRestores
  BY DEF NavigationInv
<1>5. i \in 1..Len(Tree!Rows') /\ Tree!Rows'[i] = x
  <2>1. PICK o, c : o = expanded' /\ c = collapsed'
    OBVIOUS
  <2>2. i \in 1..Len(Tree!RowsOf(tree, filter, expanded, collapsed)) /\ x = Tree!RowsOf(tree, filter, expanded, collapsed)[i]
    BY <1>3
  <2>3. /\ SameBut(expanded, o, Tree!RowsOf(tree, filter, expanded, collapsed)[i])
        /\ SameBut(collapsed, c, Tree!RowsOf(tree, filter, expanded, collapsed)[i])
    BY <1>2, <2>1, <2>2
  <2>4. /\ i \in 1..Len(Tree!RowsOf(tree, filter, o, c))
        /\ Tree!RowsOf(tree, filter, o, c)[i] = Tree!RowsOf(tree, filter, expanded, collapsed)[i]
    <3>1. tree \in Trees /\ filter \in Filters
      BY <1>4
    <3> QED  BY <2>2, <2>3, <3>1, RowStays
  <2> QED  BY <1>3, <2>1, <2>2, <2>4
<1>6. Tree!SearchRestores'
  BY <1>1, <1>2, <1>4 DEF Tree!SearchRestores
<1> QED  BY <1>1, <1>5, <1>6

\* Other rows: nothing is closed in them yet.
LEMMA RenewedRows ==
  ASSUME NavigationInv, NEW t \in Trees, NEW f \in Filters, Tree!Renew(t, f), focused' = None \/ moved', moved' \in BOOLEAN
  PROVE  NavigationInv'
<1>1. /\ tree' = t /\ filter' = f /\ collapsed' = {} /\ touched' = FALSE /\ expanded' = expanded
      /\ active' = IF active > Len(Tree!RowsOf(t, f, expanded, {})) THEN Len(Tree!RowsOf(t, f, expanded, {})) ELSE active
      /\ before' = IF f.query /\ filter.query THEN before ELSE expanded
  BY DEF Tree!Renew
<1>2. PICK r : r = Tree!RowsOf(t, f, expanded, {})
  OBVIOUS
<1>3. Tree!Rows' = r
  BY <1>1, <1>2 DEF Tree!Rows
<1>4. r \in Seq(Tree!Nodes(Tree!Browsed(t, f))) /\ 1 \in 1..Len(r)
  BY <1>2, RowsOnPage DEF RowsLie
<1>5. active \in 1..Len(Tree!Rows) /\ Tree!SearchRestores
  BY DEF NavigationInv
<1>6. active \in Nat /\ active >= 1
  <2>1. PICK n : n = Len(Tree!Rows)
    OBVIOUS
  <2>2. active \in 1..n
    BY <1>5, <2>1
  <2> QED  BY <2>2
<1>7. active' \in 1..Len(Tree!Rows')
  <2>1. active' = IF active > Len(r) THEN Len(r) ELSE active
    BY <1>1, <1>2
  <2> QED  BY <1>3, <1>4, <1>6, <2>1
<1>8. Tree!SearchRestores'
  BY <1>1, <1>5 DEF Tree!SearchRestores
<1> QED  BY <1>1, <1>7, <1>8, Zenon DEF NavigationInv

\* The focus moves to a row of the page.
LEMMA FocusedRow ==
  ASSUME NavigationInv, NEW i \in 1..Len(Tree!Rows), Tree!Focus(i), Tree!StaysPut, Tree!Settled
  PROVE  NavigationInv'
<1>1. /\ active' = i /\ focused' = Tree!Rows[i] /\ moved' = FALSE
      /\ UNCHANGED <<expanded, collapsed, touched, tree, filter, before>>
  BY DEF Tree!Focus, Tree!StaysPut, Tree!Settled
<1>2. Tree!Rows' = Tree!Rows /\ Tree!SearchRestores' = Tree!SearchRestores
  BY <1>1 DEF Tree!Rows, Tree!SearchRestores
<1> QED  BY <1>1, <1>2, Zenon DEF NavigationInv

\* The row with the focus is opened or closed.
LEMMA ToggledCurrent ==
  ASSUME NavigationInv, Tree!toggleExpanded(Tree!Current), UNCHANGED <<active, focused, moved>>, Tree!Settled
  PROVE  NavigationInv'
<1>1. active \in 1..Len(Tree!Rows) /\ Tree!Current = Tree!Rows[active]
  BY Zenon DEF NavigationInv, Tree!Current
<1>2. /\ tree' = tree /\ filter' = filter /\ touched' = TRUE /\ Tree!SearchRestores'
      /\ active \in 1..Len(Tree!Rows') /\ Tree!Rows'[active] = Tree!Rows[active]
  BY <1>1, ToggledRowStays
<1> QED  BY <1>2, Zenon DEF NavigationInv

\* TreeExplorerNavigation.ts: every step keeps the tab stop on its row.
LEMMA NavigationInvNext ==
  ASSUME NavigationInv, Tree!Next \/ UNCHANGED ofTree
  PROVE  NavigationInv'
<1>1. tree \in Trees /\ filter \in Filters /\ active \in 1..Len(Tree!Rows)
  BY DEF NavigationInv
<1>2. RowsLie(Tree!Here, Tree!Open, Tree!Rows)
  BY <1>1, PageRows
<1>3. PICK r : r = Tree!Rows
  OBVIOUS
<1>4. /\ r \in Seq(Tree!Nodes(Tree!Here)) /\ Len(r) \in Nat /\ DOMAIN r = 1..Len(r) /\ r[1] = Tree!Root
      /\ \A a \in 1..Len(r) : Unfolded(Tree!Here, Tree!Open, r[a]) => a + 1 \in 1..Len(r)
      /\ \A a \in 1..Len(r) : a # 1 => \E b \in 1..Len(r) : r[b] = Tree!Parent(Tree!Here, r[a])
  BY <1>2, <1>3 DEF RowsLie
<1>5. ASSUME NEW f \in Filters, Tree!ChooseFilter(f) PROVE NavigationInv'
  BY <1>1, <1>5, RenewedRows DEF Tree!ChooseFilter
<1>6. ASSUME NEW t \in Trees, Tree!OpenTree(t) PROVE NavigationInv'
  BY <1>1, <1>6, RenewedRows DEF Tree!OpenTree
<1>7. ASSUME NEW t \in Trees, NEW f \in Filters, Tree!GoBack(t, f) PROVE NavigationInv'
  <2>1. PICK stays : stays = (focused \in Tree!Range(Tree!RowsOf(t, f, expanded, {})) /\ Tree!Displayed(t, f))
    OBVIOUS
  <2>2. Tree!Renew(t, f) /\ focused' = (IF stays THEN focused ELSE None) /\ moved' = stays
    BY <1>7, <2>1, Zenon DEF Tree!GoBack
  <2>3. (focused' = None \/ moved') /\ moved' \in BOOLEAN
    BY <2>1, <2>2, Zenon
  <2> QED  BY <2>2, <2>3, RenewedRows
<1>8. ASSUME NEW i \in DOMAIN Tree!Rows, Tree!Click(i) PROVE NavigationInv'
  <2>1. i \in 1..Len(Tree!Rows)
    BY <1>3, <1>4
  <2>2. CASE Tree!HasChildren(Tree!Here, Tree!Rows[i])
    <3>1. /\ Tree!toggleExpanded(Tree!Rows[i]) /\ Tree!Settled
          /\ active' = i /\ focused' = Tree!Rows[i] /\ moved' = FALSE
      BY <1>8, <2>2, Zenon DEF Tree!Click, Tree!Focus
    <3>2. /\ tree' = tree /\ filter' = filter /\ touched' = TRUE /\ Tree!SearchRestores'
          /\ i \in 1..Len(Tree!Rows') /\ Tree!Rows'[i] = Tree!Rows[i]
      BY <2>1, <3>1, ToggledRowStays
    <3> QED  BY <1>1, <3>1, <3>2, Zenon DEF NavigationInv
  <2>3. CASE ~Tree!HasChildren(Tree!Here, Tree!Rows[i])
    BY <1>8, <2>1, <2>3, FocusedRow, Zenon DEF Tree!Click
  <2> QED  BY <2>2, <2>3
<1>9. CASE Tree!Tab
  BY <1>1, <1>9, FocusedRow DEF Tree!Tab
<1>10. CASE Tree!Blur
  <2>1. focused' = None /\ moved' = FALSE /\ UNCHANGED <<active, expanded, collapsed, touched, tree, filter, before>>
    BY <1>10 DEF Tree!Blur, Tree!StaysPut, Tree!Settled
  <2>2. Tree!Rows' = Tree!Rows /\ Tree!SearchRestores' = Tree!SearchRestores
    BY <2>1 DEF Tree!Rows, Tree!SearchRestores
  <2> QED  BY <2>1, <2>2, Zenon DEF NavigationInv
<1>11. CASE Tree!Position
  <2>1. PICK to \in DOMAIN Tree!Rows : Tree!Focus(to)
    BY <1>11, Zenon DEF Tree!Position
  <2>2. to \in 1..Len(Tree!Rows)
    BY <1>3, <1>4
  <2> QED  BY <1>11, <2>1, <2>2, FocusedRow, Zenon DEF Tree!Position
<1>12. CASE Tree!Right
  <2>1. CASE Tree!Current \in Tree!Open
    <3>1. Tree!Focus(active + 1) /\ Tree!StaysPut /\ Tree!Settled /\ Tree!HasChildren(Tree!Here, Tree!Current)
      BY <1>12, <2>1, Zenon DEF Tree!Right
    <3>2. Unfolded(Tree!Here, Tree!Open, r[active])
      BY <1>3, <2>1, <3>1, Zenon DEF Unfolded, Tree!Current
    <3>3. active + 1 \in 1..Len(Tree!Rows)
      BY <1>1, <1>3, <1>4, <3>2
    <3> QED  BY <3>1, <3>3, FocusedRow
  <2>2. CASE Tree!Current \notin Tree!Open
    <3>1. Tree!toggleExpanded(Tree!Current) /\ UNCHANGED <<active, focused, moved>> /\ Tree!Settled
      BY <1>12, <2>2, Zenon DEF Tree!Right
    <3> QED  BY <3>1, ToggledCurrent
  <2> QED  BY <2>1, <2>2
<1>13. CASE Tree!Left
  <2>1. CASE Tree!HasChildren(Tree!Here, Tree!Current) /\ Tree!Current \in Tree!Open
    <3>1. Tree!toggleExpanded(Tree!Current) /\ UNCHANGED <<active, focused, moved>> /\ Tree!Settled
      BY <1>13, <2>1, Zenon DEF Tree!Left
    <3> QED  BY <3>1, ToggledCurrent
  <2>2. CASE ~(Tree!HasChildren(Tree!Here, Tree!Current) /\ Tree!Current \in Tree!Open)
    <3>1. PICK i : i = Tree!Index(Tree!Rows, Tree!Parent(Tree!Here, Tree!Current))
      OBVIOUS
    <3>2. Tree!Current # Tree!Root /\ Tree!Focus(i) /\ Tree!StaysPut /\ Tree!Settled
      BY <1>13, <2>2, <3>1, Zenon DEF Tree!Left
    <3>3. Tree!Current = r[active] /\ active \in 1..Len(r)
      BY <1>1, <1>3 DEF Tree!Current
    <3>4. \E b \in DOMAIN r : r[b] = Tree!Parent(Tree!Here, Tree!Current)
      BY <1>4, <3>2, <3>3
    <3>5. i \in DOMAIN Tree!Rows
      BY <1>3, <3>1, <3>4, Zenon DEF Tree!Index
    <3>6. i \in 1..Len(Tree!Rows)
      BY <1>3, <1>4, <3>5
    <3> QED  BY <3>2, <3>6, FocusedRow
  <2> QED  BY <2>1, <2>2
<1>14. CASE Tree!Enter
  BY <1>14, ToggledCurrent DEF Tree!Enter
<1>15. CASE UNCHANGED ofTree
  <2>1. UNCHANGED <<tree, filter, expanded, collapsed, active, focused, moved, before, touched>>
    BY <1>15 DEF ofTree
  <2>2. Tree!Rows' = Tree!Rows /\ Tree!SearchRestores' = Tree!SearchRestores
    BY <2>1 DEF Tree!Rows, Tree!SearchRestores
  <2> QED  BY <2>1, <2>2, Zenon DEF NavigationInv
<1> QED  BY <1>5, <1>6, <1>7, <1>8, <1>9, <1>10, <1>11, <1>12, <1>13, <1>14, <1>15, Zenon DEF Tree!Next

-----------------------------------------------------------------------------
(* The choice of files.                                                    *)

Sendable == [print : Nat, ids : SUBSET Boxes, checked : SUBSET (Nat \X Boxes), own : BOOLEAN, done : BOOLEAN]

\* A request names the boxes that were checked in the archive shown; the archive of
\* a torrent never changes.
Honest(r) ==
  /\ r.checked = {<<r.print, id>> : id \in r.ids}
  /\ kind = "torrent" => r.print = 1

\* The dialog has at most one request of its own, and is open and busy while it has.
OwnOne ==
  /\ starting \in BOOLEAN /\ (starting => open)
  /\ starting <=> \E r \in sent : r.own
  /\ \A r, q \in sent : r.own /\ q.own => r = q

ChoosingInv ==
  /\ kind \in {"zip", "torrent"} /\ print \in Nat /\ (kind = "torrent" => print = 1)
  /\ boxes \subseteq Boxes /\ taken \subseteq Boxes /\ wanted \subseteq Boxes
  /\ seen.taken \subseteq Boxes
  /\ choices # None => choices \in [print : Nat, taken : SUBSET Boxes]
  /\ sent \subseteq Sendable /\ \A r \in sent : Honest(r)
  /\ OwnOne
  /\ Choosing!AcceptedIsChecked

\* The dialog counts with the Cardinality of FiniteSets.
LEMMA SameCount == \A S : Choosing!Cardinality(S) = Cardinality(S)
BY DEF Choosing!Cardinality, Cardinality

\* A dialog with at most one request of its own sends one when it is busy.
LEMMA OneIsSent ==
  ASSUME OwnOne
  PROVE  Choosing!BusyIsSending
<1>1. PICK own : own = {r \in sent : r.own}
  OBVIOUS
<1>2. Cardinality(own) <= 1
  <2>1. CASE own = {}
    BY <2>1, FS_EmptySet
  <2>2. CASE own # {}
    <3>1. PICK r \in own : own = {r}
      BY <1>1, <2>2 DEF OwnOne
    <3>2. Cardinality({r}) = 1
      BY FS_Singleton
    <3> QED  BY <3>1, <3>2
  <2> QED  BY <2>1, <2>2
<1>3. Cardinality({r \in sent : r.own}) <= 1
  BY <1>1, <1>2
<1>4. starting <=> \E r \in sent : r.own
  BY DEF OwnOne
<1> QED  BY <1>3, <1>4, SameCount DEF Choosing!BusyIsSending

\* Requests that the dialog has let go of.
LEMMA LetGo ==
  ASSUME NEW S, S \subseteq Sendable
  PROVE  LET free == {[r EXCEPT !.own = FALSE] : r \in S} IN
         /\ free \subseteq Sendable
         /\ \A q \in free : ~q.own /\ \E r \in S : q.print = r.print /\ q.ids = r.ids /\ q.checked = r.checked
<1> SUFFICES ASSUME NEW r \in S
             PROVE  LET q == [r EXCEPT !.own = FALSE] IN
                    q \in Sendable /\ q.own = FALSE /\ q.print = r.print /\ q.ids = r.ids /\ q.checked = r.checked
  OBVIOUS
<1>1. r \in Sendable
  OBVIOUS
<1> QED  BY <1>1 DEF Sendable

\* ArchiveFileDialog.tsx: every step keeps what is sent honest.
LEMMA ChoosingInvNext ==
  ASSUME ChoosingInv, Choosing!Next \/ UNCHANGED ofChoices
  PROVE  ChoosingInv'
<1> USE DEF Choosing!Job, Choosing!Dialog
<1> DEFINE free(S) == {[r EXCEPT !.own = FALSE] : r \in S}
           Requests == sent' \subseteq Sendable /\ (\A r \in sent' : Honest(r)') /\ OwnOne'
           Rest == /\ kind' = kind /\ print' \in Nat /\ (kind = "torrent" => print' = 1)
                   /\ boxes' \subseteq Boxes /\ taken' \subseteq Boxes /\ wanted' \subseteq Boxes /\ seen'.taken \subseteq Boxes
                   /\ choices' # None => choices' \in [print : Nat, taken : SUBSET Boxes]
<1>20. ASSUME Rest, Requests, UNCHANGED accepted \/ accepted' = Choosing!Nothing PROVE ChoosingInv'
  BY <1>20 DEF ChoosingInv, Choosing!AcceptedIsChecked, Choosing!Nothing
<1>0. ASSUME NEW S, S \subseteq sent, sent' = free(S), kind' = kind, starting' = FALSE
      PROVE  Requests
  <2>1. free(S) \subseteq Sendable /\ \A q \in free(S) : ~q.own /\ \E r \in S : q.print = r.print /\ q.ids = r.ids /\ q.checked = r.checked
    BY <1>0, LetGo DEF ChoosingInv
  <2>2. starting' = FALSE
    BY <1>0
  <2>3. \A r \in S : Honest(r)
    BY <1>0 DEF ChoosingInv
  <2> HIDE DEF free
  <2>4. ASSUME NEW q \in sent' PROVE ~q.own /\ Honest(q)'
    <3>1. PICK r \in S : q.print = r.print /\ q.ids = r.ids /\ q.checked = r.checked
      BY <1>0, <2>1
    <3>2. r.checked = {<<r.print, id>> : id \in r.ids} /\ (kind = "torrent" => r.print = 1)
      BY <2>3 DEF Honest
    <3>3. q.checked = {<<q.print, id>> : id \in q.ids} /\ (kind' = "torrent" => q.print = 1)
      BY <1>0, <3>1, <3>2
    <3> QED  BY <1>0, <2>1, <3>3 DEF Honest
  <2>5. OwnOne'
    BY <2>2, <2>4 DEF OwnOne
  <2> QED  BY <1>0, <2>1, <2>4, <2>5
<1> HIDE DEF free
<1>21. ASSUME UNCHANGED <<kind, sent, starting, open>> PROVE Requests
  BY <1>21 DEF ChoosingInv, OwnOne, Honest
<1>22. ASSUME NEW ids \in SUBSET Boxes, Choosing!Take(ids) PROVE taken' \subseteq Boxes /\ wanted' \subseteq Boxes
  BY <1>22 DEF Choosing!Take, ChoosingInv
<1>1. CASE UNCHANGED ofChoices
  BY <1>1, <1>20, <1>21 DEF ofChoices, ChoosingInv
<1>2. ASSUME NEW ids \in SUBSET Boxes, Choosing!OthersChoose(ids) PROVE ChoosingInv'
  <2>1. taken' \subseteq Boxes /\ wanted' \subseteq Boxes /\ UNCHANGED <<kind, print, seen, choices, open, adding, boxes, starting, sent, accepted>>
    BY <1>2, <1>22 DEF Choosing!OthersChoose
  <2> QED  BY <2>1, <1>20, <1>21 DEF ChoosingInv
<1>3. CASE Choosing!JobMoves
  <2>1. /\ print' \in Nat /\ (kind = "torrent" => print' = 1)
        /\ taken' \subseteq Boxes /\ wanted' \subseteq Boxes
        /\ UNCHANGED <<kind, seen, choices, open, adding, boxes, starting, sent, accepted>>
    BY <1>3 DEF Choosing!JobMoves, ChoosingInv
  <2> QED  BY <2>1, <1>20, <1>21 DEF ChoosingInv
<1>4. CASE Choosing!Poll
  BY <1>4, <1>20, <1>21 DEF ChoosingInv, Choosing!Poll
<1>5. CASE Choosing!OpenDialog
  <2>1. open' = TRUE /\ starting' = FALSE /\ UNCHANGED <<kind, print, taken, wanted, seen, choices, sent, accepted>> /\ boxes' \subseteq Boxes
    BY <1>5 DEF Choosing!OpenDialog
  <2>2. ~starting /\ \A r \in sent : ~r.own
    BY <1>5 DEF Choosing!OpenDialog, ChoosingInv, OwnOne
  <2>3. Requests
    BY <2>1, <2>2 DEF ChoosingInv, OwnOne, Honest
  <2> QED  BY <2>1, <2>3, <1>20 DEF ChoosingInv
<1>6. CASE Choosing!Manifest
  <2>1. /\ open /\ UNCHANGED <<kind, print, taken, wanted, seen, open, adding, accepted>>
        /\ choices' = [print |-> print, taken |-> taken]
        /\ boxes' \subseteq Boxes
    BY <1>6 DEF Choosing!Manifest, ChoosingInv
  <2>2. (sent' = sent /\ starting' = starting) \/ (sent' = free(sent) /\ starting' = FALSE)
    BY <1>6 DEF Choosing!Manifest, ChoosingInv, OwnOne, free
  <2>3. Requests
    BY <1>0, <1>21, <2>1, <2>2
  <2>4. choices' \in [print : Nat, taken : SUBSET Boxes]
    BY <2>1 DEF ChoosingInv
  <2> QED  BY <2>1, <2>3, <2>4, <1>20 DEF ChoosingInv
<1>7. ASSUME NEW ids \in SUBSET Choosing!Available, NEW checked \in BOOLEAN, Choosing!Change(ids, checked) PROVE ChoosingInv'
  <2>1. Choosing!Available \subseteq Boxes
    BY DEF Choosing!Available
  <2>2. boxes' \subseteq Boxes /\ UNCHANGED <<kind, print, taken, wanted, seen, choices, open, adding, starting, sent, accepted>>
    BY <1>7, <2>1 DEF Choosing!Change, ChoosingInv
  <2> QED  BY <2>2, <1>20, <1>21 DEF ChoosingInv
<1>8. CASE Choosing!StartAdding
  <2>2. boxes' \subseteq Boxes /\ UNCHANGED <<kind, print, taken, wanted, seen, choices, open, starting, sent, accepted>>
    BY <1>8 DEF Choosing!StartAdding
  <2> QED  BY <2>2, <1>20, <1>21 DEF ChoosingInv
<1>9. CASE Choosing!Submit
  <2>0. PICK new : new = [print |-> Choosing!ShownPrint, ids |-> Choosing!Chosen, checked |-> Choosing!Checked, own |-> TRUE, done |-> FALSE]
    OBVIOUS
  <2>1. open /\ ~starting /\ starting' = TRUE /\ sent' = sent \cup {new}
        /\ UNCHANGED <<kind, print, taken, wanted, seen, choices, open, boxes, accepted>>
    BY <1>9, <2>0 DEF Choosing!Submit
  <2>2. Choosing!ShownPrint \in Nat /\ (kind = "torrent" => Choosing!ShownPrint = 1)
    BY <1>9 DEF Choosing!ShownPrint, Choosing!Submit, Choosing!CanSelect, ChoosingInv
  <2>3. Choosing!Chosen \subseteq Boxes /\ Choosing!Checked = {<<Choosing!ShownPrint, id>> : id \in Choosing!Chosen}
    BY DEF Choosing!Chosen, Choosing!Checked, ChoosingInv
  <2>4. PICK p, ids, checked : p = Choosing!ShownPrint /\ ids = Choosing!Chosen /\ checked = Choosing!Checked
    OBVIOUS
  <2>5. p \in Nat /\ ids \subseteq Boxes /\ checked = {<<p, id>> : id \in ids} /\ (kind = "torrent" => p = 1)
    BY <2>2, <2>3, <2>4
  <2>6. checked \in SUBSET (Nat \X Boxes)
    BY <2>5
  <2>7. new = [print |-> p, ids |-> ids, checked |-> checked, own |-> TRUE, done |-> FALSE]
    BY <2>0, <2>4
  <2>8. new \in Sendable /\ new.own = TRUE /\ new.print = p /\ new.ids = ids /\ new.checked = checked
    BY <2>5, <2>6, <2>7 DEF Sendable
  <2>9. \A r \in sent : ~r.own
    BY <2>1 DEF ChoosingInv, OwnOne
  <2>10. Honest(new)'
    <3>1. new.checked = {<<new.print, id>> : id \in new.ids} /\ (kind = "torrent" => new.print = 1)
      BY <2>5, <2>8
    <3>2. kind' = kind
      BY <2>1
    <3> QED  BY <3>1, <3>2 DEF Honest
  <2>12. \A r \in sent' : Honest(r)'
    <3>1. \A r \in sent : Honest(r)'
      BY <2>1 DEF ChoosingInv, Honest
    <3>2. sent' = sent \cup {new}
      BY <2>1
    <3> QED  BY <2>10, <3>1, <3>2
  <2>13. OwnOne'
    BY <2>1, <2>8, <2>9 DEF ChoosingInv, OwnOne
  <2>11. Requests
    BY <2>1, <2>8, <2>12, <2>13 DEF ChoosingInv
  <2> QED  BY <2>1, <2>11, <1>20 DEF ChoosingInv
<1>10. CASE Choosing!Close
  <2>1. sent' = free(sent) /\ starting' = FALSE /\ boxes' = {} /\ UNCHANGED <<kind, print, taken, wanted, seen, choices, accepted>>
    BY <1>10 DEF Choosing!Close, free
  <2> QED  BY <2>1, <1>0, <1>20 DEF ChoosingInv
<1>11. ASSUME NEW r \in sent, Choosing!Accepted(r) PROVE ChoosingInv'
  <2> DEFINE q == [r EXCEPT !.done = TRUE]
  <2>1. r \in Sendable /\ Honest(r) /\ r.print \in Nat /\ r.ids \subseteq Boxes
    BY DEF ChoosingInv, Sendable
  <2>2. q \in Sendable /\ q.own = r.own /\ q.print = r.print /\ q.ids = r.ids /\ q.checked = r.checked
    BY <2>1 DEF Sendable
  <2>3. sent' = (sent \ {r}) \cup {q} /\ UNCHANGED <<kind, print, seen, choices, open, adding, boxes, starting>>
    BY <1>11 DEF Choosing!Accepted
  <2>4. taken' \subseteq Boxes /\ wanted' \subseteq Boxes
    BY <1>11, <1>22, <2>1 DEF Choosing!Accepted
  <2>5. r.print = print
    <3>1. kind = "zip" => r.print = print
      BY <1>11 DEF Choosing!Accepted, Choosing!Accepts
    <3> QED  BY <2>1, <3>1 DEF ChoosingInv, Honest
  <2>6. accepted' = [files |-> {<<print, id>> : id \in r.ids}, checked |-> r.checked]
    BY <1>11 DEF Choosing!Accepted
  <2>7. Choosing!AcceptedIsChecked'
    BY <2>1, <2>5, <2>6 DEF Honest, Choosing!AcceptedIsChecked
  <2> HIDE DEF q
  <2>8. Requests
    BY <2>1, <2>2, <2>3 DEF ChoosingInv, OwnOne, Honest
  <2> QED  BY <2>3, <2>4, <2>7, <2>8 DEF ChoosingInv
<1>12. ASSUME NEW r \in sent, Choosing!Answered(r) PROVE ChoosingInv'
  <2>1. /\ sent' = free(sent \ {r}) /\ starting' = FALSE /\ boxes' = {} /\ UNCHANGED <<kind, print, taken, wanted>>
        /\ seen' = [status |-> status, taken |-> taken] /\ accepted' = Choosing!Nothing
        /\ choices' = [print |-> print, taken |-> taken] \/ choices' = choices
    BY <1>12 DEF Choosing!Answered, free
  <2>2. choices' # None => choices' \in [print : Nat, taken : SUBSET Boxes]
    BY <2>1 DEF ChoosingInv
  <2>3. Requests
    BY <1>0, <2>1
  <2> QED  BY <2>1, <2>2, <2>3, <1>20 DEF ChoosingInv
<1>13. ASSUME NEW r \in sent, Choosing!Refused(r) PROVE ChoosingInv'
  <2>1. /\ sent' = sent \ {r} /\ UNCHANGED <<kind, print, taken, wanted, seen, choices, open, boxes>>
        /\ starting' = (starting /\ ~r.own) /\ (accepted' = accepted \/ accepted' = Choosing!Nothing)
    BY <1>13 DEF Choosing!Refused
  <2>2. Requests
    BY <2>1 DEF ChoosingInv, OwnOne, Honest, Sendable
  <2> QED  BY <2>1, <2>2, <1>20 DEF ChoosingInv
<1> QED  BY <1>1, <1>2, <1>3, <1>4, <1>5, <1>6, <1>7, <1>8, <1>9, <1>10, <1>11, <1>12, <1>13 DEF Choosing!Next

-----------------------------------------------------------------------------
(* The drafts.                                                             *)

Row == [id : Nat, url : Urls, http : BOOLEAN]

\* The drafts have identifiers of their own that were all given out.
Numbered(ds, next) ==
  /\ ds \in Seq(Row) /\ Len(ds) <= Limit
  /\ \A i \in DOMAIN ds : ds[i].id < next
  /\ \A i, j \in DOMAIN ds : ds[i].id = ds[j].id => i = j

DraftsInv ==
  /\ lines \in Seq(Urls) /\ nextId \in Nat /\ changed \in BOOLEAN /\ submitting \in BOOLEAN
  /\ Numbered(drafts, nextId)
  /\ Adds!BatchIsKept /\ Adds!BatchIsSound

\* The operator of the dialog is the one of Functions.
LEMMA SameInjective == \A f : Adds!IsInjective(f) <=> \A i, j \in DOMAIN f : f[i] = f[j] => i = j
BY DEF Adds!IsInjective

\* The lines taken over are drafts that fit, with the next identifiers.
LEMMA AddedRows ==
  ASSUME DraftsInv
  PROVE  /\ Adds!Added \in Seq(Row) /\ Len(Adds!Added) \in Nat /\ Len(drafts) + Len(Adds!Added) <= Limit
         /\ \A i \in 1..Len(Adds!Added) : Adds!Added[i].id = nextId + i - 1
<1>1. PICK n : n = IF Len(lines) < Limit - Len(drafts) THEN Len(lines) ELSE Limit - Len(drafts)
  OBVIOUS
<1>2. Limit \in Nat /\ Len(lines) \in Nat /\ Len(drafts) \in Nat /\ Len(drafts) <= Limit /\ nextId \in Nat /\ lines \in Seq(Urls)
  BY ClientConstants DEF DraftsInv, Numbered
<1>3. n \in Nat /\ n <= Len(lines) /\ Len(drafts) + n <= Limit
  BY <1>1, <1>2
<1>4. PICK a : a = [i \in 1..n |-> [id |-> nextId + i - 1, url |-> lines[i], http |-> FALSE]]
  OBVIOUS
<1>5. Adds!Added = a
  BY <1>1, <1>4, Zenon DEF Adds!Added, Adds!parseDrafts
<1>6. \A i \in 1..n : nextId + i - 1 \in Nat /\ lines[i] \in Urls
  BY <1>2, <1>3
<1>7. a \in [1..n -> Row]
  BY <1>4, <1>6 DEF Row
<1>8. \A i \in 1..n : a[i].id = nextId + i - 1
  BY <1>4
<1>9. a \in Seq(Row) /\ Len(a) = n
  BY <1>3, <1>7
<1> QED  BY <1>3, <1>5, <1>8, <1>9

\* What would be sent has identifiers of its own.
LEMMA SubmissionRows ==
  ASSUME DraftsInv
  PROVE  Numbered(Adds!Submission, nextId + Len(Adds!Added))
<1>1. PICK a, d, s : a = Adds!Added /\ d = drafts /\ s = d \o a
  OBVIOUS
<1>2. /\ a \in Seq(Row) /\ Len(a) \in Nat /\ Len(d) + Len(a) <= Limit
      /\ \A i \in 1..Len(a) : a[i].id = nextId + i - 1
  BY <1>1, AddedRows
<1>3. d \in Seq(Row) /\ (\A i \in DOMAIN d : d[i].id < nextId) /\ \A i, j \in DOMAIN d : d[i].id = d[j].id => i = j
  BY <1>1 DEF DraftsInv, Numbered
<1>4. PICK m, n, next : m = Len(d) /\ n = Len(a) /\ next = nextId
  OBVIOUS
<1>5. m \in Nat /\ n \in Nat /\ next \in Nat /\ m + n <= Limit
  BY <1>2, <1>3, <1>4 DEF DraftsInv
<1>6. /\ s \in Seq(Row) /\ Len(s) = m + n
      /\ \A i \in 1..(m + n) : s[i] = IF i <= m THEN d[i] ELSE a[i - m]
  BY <1>1, <1>2, <1>3, <1>4, ConcatProperties
<1>7. ASSUME NEW i \in 1..m PROVE d[i].id \in Nat /\ d[i].id < next
  <2>1. DOMAIN d = 1..m /\ i \in DOMAIN d
    BY <1>3, <1>4
  <2>2. d[i] \in Row
    <3>1. \A k \in DOMAIN d : d[k] \in Row
      BY <1>3
    <3> QED  BY <2>1, <3>1
  <2>3. d[i].id \in Nat
    BY <2>2 DEF Row
  <2> QED  BY <1>3, <1>4, <2>1, <2>3
<1>8. ASSUME NEW i \in 1..(m + n)
      PROVE  /\ i <= m => i \in 1..m /\ s[i] = d[i]
             /\ ~(i <= m) => i - m \in 1..n /\ s[i].id = next + (i - m) - 1
  <2>1. CASE i <= m
    BY <1>5, <1>6, <2>1
  <2>2. CASE ~(i <= m)
    <3>1. i - m \in 1..n /\ s[i] = a[i - m]
      BY <1>5, <1>6, <2>2
    <3>2. \A k \in 1..n : a[k].id = next + k - 1
      BY <1>2, <1>4
    <3> QED  BY <2>2, <3>1, <3>2
  <2> QED  BY <2>1, <2>2
<1>9. ASSUME NEW i \in 1..(m + n) PROVE s[i].id < next + n
  BY <1>5, <1>7, <1>8
<1>10. ASSUME NEW i \in 1..(m + n), NEW j \in 1..(m + n), s[i].id = s[j].id PROVE i = j
  <2>1. CASE i <= m /\ j <= m
    BY <1>3, <1>4, <1>8, <1>10, <2>1
  <2>2. CASE ~(i <= m) /\ ~(j <= m)
    BY <1>5, <1>8, <1>10, <2>2
  <2>3. CASE i <= m /\ ~(j <= m)
    BY <1>5, <1>7, <1>8, <1>10, <2>3
  <2>4. CASE ~(i <= m) /\ j <= m
    BY <1>5, <1>7, <1>8, <1>10, <2>4
  <2> QED  BY <2>1, <2>2, <2>3, <2>4
<1>11. Adds!Submission = s
  BY <1>1 DEF Adds!Submission
<1>12. DOMAIN s = 1..(m + n) /\ Len(Adds!Added) = n /\ nextId = next
  BY <1>1, <1>4, <1>5, <1>6
<1> QED  BY <1>5, <1>6, <1>9, <1>10, <1>11, <1>12 DEF Numbered

\* Taking the lines over does not change what would be sent.
LEMMA PromoteKeeps ==
  ASSUME DraftsInv, Adds!Promote
  PROVE  Adds!Submission' = Adds!Submission /\ Numbered(drafts', nextId') /\ nextId' \in Nat /\ lines' = <<>>
<1>1. drafts' = Adds!Submission /\ nextId' = nextId + Len(Adds!Added) /\ lines' = <<>>
  BY DEF Adds!Promote
<1>2. Numbered(drafts', nextId')
  BY <1>1, SubmissionRows
<1>3. nextId' \in Nat
  BY <1>1, AddedRows DEF DraftsInv
<1>4. PICK d : d = drafts'
  OBVIOUS
<1>5. d \in Seq(Row) /\ Len(d) \in Nat /\ Len(d) <= Limit /\ Limit \in Nat
  BY <1>2, <1>4, ClientConstants DEF Numbered
<1>6. Adds!Added' = [i \in 1..(IF Len(lines') < Limit - Len(drafts') THEN Len(lines') ELSE Limit - Len(drafts'))
                      |-> [id |-> nextId' + i - 1, url |-> lines'[i], http |-> FALSE]]
  BY Zenon DEF Adds!Added, Adds!parseDrafts
<1>7. (IF Len(lines') < Limit - Len(drafts') THEN Len(lines') ELSE Limit - Len(drafts')) = 0
  BY <1>1, <1>4, <1>5
<1>8. 1..0 = {}
  OBVIOUS
<1>9. Adds!Added' = <<>>
  <2>1. Adds!Added' = [i \in {} |-> [id |-> nextId' + i - 1, url |-> lines'[i], http |-> FALSE]]
    BY <1>6, <1>7, <1>8, Zenon
  <2> QED  BY <2>1
<1>10. d \o <<>> = d
  BY <1>5
<1>11. Adds!Submission' = drafts' \o Adds!Added'
  BY DEF Adds!Submission
<1> QED  BY <1>1, <1>2, <1>3, <1>4, <1>9, <1>10, <1>11

\* DownloadDialog.tsx: every step keeps the drafts numbered and the batch as sent.
LEMMA DraftsInvNext ==
  ASSUME DraftsInv, Adds!Next \/ UNCHANGED ofDrafts
  PROVE  DraftsInv'
<1>0. ASSUME lines' \in Seq(Urls), nextId' \in Nat, changed' \in BOOLEAN, submitting' \in BOOLEAN, Numbered(drafts', nextId'),
             Adds!BatchIsKept', Adds!BatchIsSound'
      PROVE  DraftsInv'
  BY <1>0, Zenon DEF DraftsInv
<1>1. /\ lines \in Seq(Urls) /\ nextId \in Nat /\ changed \in BOOLEAN /\ submitting \in BOOLEAN
      /\ Numbered(drafts, nextId) /\ Adds!BatchIsKept /\ Adds!BatchIsSound
  BY DEF DraftsInv
<1>2. batch' = batch => Adds!BatchIsSound'
  BY <1>1 DEF Adds!BatchIsSound, Adds!IsInjective, Adds!validDraft
<1>3. changed' => Adds!BatchIsKept'
  BY DEF Adds!BatchIsKept
<1>4. Adds!Submission' = Adds!Submission /\ batch' = batch /\ changed' = changed => Adds!BatchIsKept'
  <2> SUFFICES ASSUME Adds!Submission' = Adds!Submission, batch' = batch, changed' = changed
               PROVE  Adds!BatchIsKept'
    OBVIOUS
  <2>1. Adds!Items(Adds!Submission)' = Adds!Items(Adds!Submission)
    BY DEF Adds!Items
  <2> QED  BY <1>1, <2>1, Zenon DEF Adds!BatchIsKept
<1>5. UNCHANGED <<lines, drafts, nextId>> => Adds!Submission' = Adds!Submission
  BY DEF Adds!Submission, Adds!Added, Adds!parseDrafts
<1>6. CASE UNCHANGED <<lines, drafts, nextId, batch, changed>> /\ submitting' \in BOOLEAN
  BY <1>0, <1>1, <1>2, <1>4, <1>5, <1>6
<1>7. CASE Adds!LeaveBox
  <2>1. Adds!Promote /\ UNCHANGED <<submitting, batch, changed>>
    BY <1>7 DEF Adds!LeaveBox
  <2>2. Adds!Submission' = Adds!Submission /\ Numbered(drafts', nextId') /\ nextId' \in Nat /\ lines' = <<>>
    BY <2>1, PromoteKeeps
  <2>3. lines' \in Seq(Urls)
    BY <2>2
  <2> QED  BY <1>0, <1>1, <1>2, <1>4, <2>1, <2>2, <2>3
<1>8. CASE Adds!Submit
  <2>1. batch' = Adds!Items(Adds!Submission) /\ submitting' = TRUE /\ changed' = FALSE /\ Adds!Ready
    BY <1>8 DEF Adds!Submit
  <2>2. /\ Adds!Submission' = Adds!Submission /\ Numbered(drafts', nextId') /\ nextId' \in Nat /\ lines' \in Seq(Urls)
    <3>1. CASE Adds!Promote
      <4>1. Adds!Submission' = Adds!Submission /\ Numbered(drafts', nextId') /\ nextId' \in Nat /\ lines' = <<>>
        BY <3>1, PromoteKeeps
      <4>2. lines' \in Seq(Urls)
        BY <4>1
      <4> QED  BY <4>1, <4>2
    <3>2. CASE UNCHANGED <<drafts, nextId, lines>>
      BY <1>1, <1>5, <3>2
    <3> QED  BY <1>8, <3>1, <3>2 DEF Adds!Submit
  <2>3. Adds!BatchIsKept'
    <3>1. Adds!Items(Adds!Submission)' = Adds!Items(Adds!Submission)
      BY <2>2 DEF Adds!Items
    <3> QED  BY <2>1, <3>1, Zenon DEF Adds!BatchIsKept
  <2>4. Adds!BatchIsSound'
    <3>1. PICK s : s = Adds!Submission
      OBVIOUS
    <3>2. PICK b : b = [i \in DOMAIN s |-> [url |-> s[i].url, http |-> s[i].http]]
      OBVIOUS
    <3>3. batch' = b
      BY <2>1, <3>1, <3>2 DEF Adds!Items
    <3>4. s \in Seq(Row) /\ Len(s) <= Limit
      BY <3>1, SubmissionRows DEF Numbered
    <3>5. Len(b) = Len(s) /\ DOMAIN b = DOMAIN s
      BY <3>2, <3>4
    <3>6. \A i \in DOMAIN b : b[i].url = s[i].url /\ b[i].http = s[i].http
      BY <3>2
    <3>7. \A i \in DOMAIN s : s[i].url \in Valid /\ ~(s[i].url \in Magnets /\ s[i].http)
      BY <2>1, <3>1 DEF Adds!Ready, Adds!validDraft
    <3>8. \A i, j \in DOMAIN s : s[i].url = s[j].url => i = j
      <4>1. Adds!IsInjective([i \in DOMAIN s |-> s[i].url])
        BY <2>1, <3>1, Zenon DEF Adds!Ready
      <4> QED  BY <4>1 DEF Adds!IsInjective
    <3>9. Len(batch') <= Limit /\ \A i \in DOMAIN batch' : Adds!validDraft(batch'[i])
      BY <3>3, <3>4, <3>5, <3>6, <3>7 DEF Adds!validDraft
    <3>10. Adds!IsInjective([i \in DOMAIN batch' |-> batch'[i].url])
      BY <3>3, <3>5, <3>6, <3>8 DEF Adds!IsInjective
    <3> QED  BY <3>9, <3>10, Zenon DEF Adds!BatchIsSound, Adds!validDraft, Adds!IsInjective
  <2> QED  BY <1>0, <2>1, <2>2, <2>3, <2>4
<1>9. CASE Adds!Succeeds
  <2>1. lines' = <<>> /\ drafts' = <<>> /\ submitting' = FALSE /\ batch' = <<>> /\ changed' = FALSE /\ nextId' = nextId
    BY <1>9 DEF Adds!Succeeds
  <2>2. Limit \in Nat
    BY ClientConstants
  <2>3. Numbered(<<>>, nextId)
    BY <2>2 DEF Numbered
  <2>4. Adds!BatchIsSound'
    BY <2>1, <2>2 DEF Adds!BatchIsSound, Adds!IsInjective
  <2>5. Adds!BatchIsKept'
    BY <2>1 DEF Adds!BatchIsKept
  <2>6. lines' \in Seq(Urls) /\ nextId' \in Nat /\ Numbered(drafts', nextId')
    <3>1. <<>> \in Seq(Urls)
      OBVIOUS
    <3> QED  BY <1>1, <2>1, <2>3, <3>1
  <2>7. changed' \in BOOLEAN /\ submitting' \in BOOLEAN
    BY <2>1
  <2> QED  BY <1>0, <2>4, <2>5, <2>6, <2>7, Zenon
<1>10. ASSUME NEW typed \in Adds!BoundedSeq(Urls, MaxLines), Adds!Type(typed) PROVE DraftsInv'
  <2>1. typed \in Seq(Urls)
    BY ClientConstants DEF Adds!BoundedSeq, Adds!SeqOf
  <2>2. lines' = typed /\ changed' = TRUE /\ UNCHANGED <<drafts, nextId, submitting, batch>>
    BY <1>10 DEF Adds!Type
  <2> QED  BY <1>0, <1>1, <1>2, <1>3, <2>1, <2>2
<1>11. ASSUME NEW i \in DOMAIN drafts, Adds!RemoveDraft(drafts[i].id) PROVE DraftsInv'
  <2>1. PICK id : id = drafts[i].id
    OBVIOUS
  <2>2. PICK keep : keep = {k \in DOMAIN drafts : drafts[k].id # id}
    OBVIOUS
  <2>3. drafts' = FlattenSeq(Filtering(drafts, keep)) /\ changed' = TRUE /\ UNCHANGED <<lines, nextId, submitting, batch>>
    <3>1. Filtering(drafts, keep) = [k \in DOMAIN drafts |-> IF drafts[k].id = id THEN <<>> ELSE <<drafts[k]>>]
      BY <2>2 DEF Filtering
    <3>2. \A x : Adds!FlattenSeq(x) = FlattenSeq(x)
      BY DEF Adds!FlattenSeq, FlattenSeq
    <3> QED  BY <1>11, <2>1, <3>1, <3>2 DEF Adds!RemoveDraft
  <2>4. PICK d, r : d = drafts /\ r = drafts'
    OBVIOUS
  <2>5. d \in Seq(Row) /\ Len(d) <= Limit /\ (\A k \in DOMAIN d : d[k].id < nextId) /\ \A k, l \in DOMAIN d : d[k].id = d[l].id => k = l
    BY <1>1, <2>4 DEF Numbered
  <2>6. r \in Seq(Row) /\ Sublist(r, d, keep)
    BY <2>3, <2>4, <2>5, SublistProperties
  <2>7. PICK m \in [1..Len(r) -> DOMAIN d] :
          /\ \A a, b \in 1..Len(r) : a < b => m[a] < m[b]
          /\ \A a \in 1..Len(r) : m[a] \in keep /\ r[a] = d[m[a]]
    BY <2>6 DEF Sublist
  <2>8. PICK n, N \in Nat : n = Len(r) /\ N = Len(d)
    BY <2>5, <2>6
  <2>9. m \in [1..n -> 1..N] /\ DOMAIN r = 1..n /\ DOMAIN d = 1..N
    BY <2>5, <2>6, <2>7, <2>8
  <2>10. \A a, b \in 1..n : m[a] = m[b] => a = b
    <3> SUFFICES ASSUME NEW a \in 1..n, NEW b \in 1..n, m[a] = m[b] PROVE a = b
      OBVIOUS
    <3>1. m[a] \in Nat /\ m[b] \in Nat
      BY <2>9
    <3>2. ~(a < b) /\ ~(b < a)
      BY <2>7, <2>8, <3>1
    <3> QED  BY <3>2
  <2>11. n <= N
    <3>1. m \in Injection(1..n, 1..N)
      BY <2>9, <2>10 DEF Injection, IsInjective
    <3>2. IsFiniteSet(1..N) /\ Cardinality(1..N) = N /\ Cardinality(1..n) = n
      BY FS_Interval
    <3> QED  BY <3>1, <3>2, FS_Injection
  <2>12. Numbered(r, nextId)
    BY <2>5, <2>6, <2>7, <2>8, <2>9, <2>10, <2>11, ClientConstants DEF Numbered
  <2> QED  BY <1>0, <1>1, <1>2, <1>3, <2>3, <2>4, <2>12
<1>12. ASSUME NEW i \in DOMAIN drafts, NEW url \in Urls, NEW http \in BOOLEAN, Adds!Edit(drafts[i].id, url, http) PROVE DraftsInv'
  <2>1. PICK id, d, r : id = drafts[i].id /\ d = drafts /\ r = drafts'
    OBVIOUS
  <2>2. /\ r = [k \in DOMAIN d |-> IF d[k].id = id THEN [id |-> id, url |-> url, http |-> http] ELSE d[k]]
        /\ changed' = TRUE /\ UNCHANGED <<lines, nextId, submitting, batch>>
    BY <1>12, <2>1 DEF Adds!Edit
  <2>3. d \in Seq(Row) /\ Len(d) <= Limit /\ (\A k \in DOMAIN d : d[k].id < nextId) /\ \A k, l \in DOMAIN d : d[k].id = d[l].id => k = l
    BY <1>1, <2>1 DEF Numbered
  <2>4. \A k \in DOMAIN d : d[k] \in Row
    BY <2>3
  <2>5. id \in Nat
    BY <2>1, <2>4 DEF Row
  <2>6. PICK e : e = [id |-> id, url |-> url, http |-> http]
    OBVIOUS
  <2>7. e \in Row /\ e.id = id
    BY <2>5, <2>6 DEF Row
  <2>8. \A k \in DOMAIN d : r[k] \in Row /\ r[k].id = d[k].id
    BY <2>2, <2>4, <2>6, <2>7
  <2>9. DOMAIN r = DOMAIN d /\ r \in Seq(Row) /\ Len(r) = Len(d)
    <3>1. DOMAIN r = 1..Len(d) /\ Len(d) \in Nat /\ r = [k \in 1..Len(d) |-> r[k]]
      BY <2>2, <2>3
    <3>2. \A k \in 1..Len(d) : r[k] \in Row
      BY <2>2, <2>8, <3>1
    <3>3. r \in [1..Len(d) -> Row]
      BY <3>1, <3>2
    <3> QED  BY <2>2, <3>1, <3>3
  <2>10. Numbered(r, nextId)
    BY <2>3, <2>8, <2>9 DEF Numbered
  <2> QED  BY <1>0, <1>1, <1>2, <1>3, <2>1, <2>2, <2>10
<1>13. CASE UNCHANGED ofDrafts
  BY <1>1, <1>6, <1>13 DEF ofDrafts
<1>14. CASE Adds!ShowDialog \/ Adds!CloseDialog \/ Adds!Fails
  BY <1>1, <1>6, <1>14 DEF Adds!ShowDialog, Adds!CloseDialog, Adds!Fails
<1> QED  BY <1>7, <1>8, <1>9, <1>10, <1>11, <1>12, <1>13, <1>14 DEF Adds!Next

-----------------------------------------------------------------------------
(* The dialog of a nested archive.                                         *)

\* An opening is under way or done only for a user who wants it, and the child is
\* shown only when the dialog is gone.
NestedInv ==
  /\ cancels \in Nat /\ mounted \in BOOLEAN /\ child \in BOOLEAN /\ wants \in BOOLEAN
  /\ closing \in BOOLEAN /\ canceling \in BOOLEAN
  /\ mutation \in {"pending", "done"} => wants
  /\ mounted => ~child
  /\ Nested!OpenedIsWanted /\ Nested!ClosingWaits

\* NestedArchiveDialog.tsx: every step keeps openings wanted.
LEMMA NestedInvNext ==
  ASSUME NestedInv, Nested!Next \/ UNCHANGED ofNested
  PROVE  NestedInv'
<1> USE DEF NestedInv, Nested!OpenedIsWanted, Nested!ClosingWaits
<1>1. CASE UNCHANGED ofNested
  BY <1>1 DEF ofNested
<1>2. CASE Nested!Mount
  BY <1>2 DEF Nested!Mount
<1>3. CASE Nested!Extract
  BY <1>3, Zenon DEF Nested!Extract
<1>8. CASE Nested!Opened
  BY <1>8, Zenon DEF Nested!Opened
<1>9. CASE Nested!OpenFailed
  BY <1>9, Zenon DEF Nested!OpenFailed
<1>10. CASE Nested!LooseEnds
  BY <1>10, Zenon DEF Nested!LooseEnds
<1>4. CASE Nested!OpenChild
  BY <1>4 DEF Nested!OpenChild
<1>5. CASE Nested!Close
  <2>1. cancels' \in Nat /\ cancels' > 0
    BY <1>5 DEF Nested!Close
  <2> QED  BY <1>5, <2>1, Zenon DEF Nested!Close
<1>6. CASE Nested!Cancelled
  <2>1. cancels' \in Nat
    BY <1>6 DEF Nested!Cancelled
  <2> QED  BY <1>6, <2>1, Zenon DEF Nested!Cancelled
<1>7. CASE Nested!CancelFails
  <2>1. cancels' \in Nat
    BY <1>7 DEF Nested!CancelFails
  <2> QED  BY <1>7, <2>1, Zenon DEF Nested!CancelFails
<1>11. CASE Nested!Leave
  BY <1>11, Zenon DEF Nested!Leave
<1> QED  BY <1>1, <1>2, <1>3, <1>4, <1>5, <1>6, <1>7, <1>8, <1>9, <1>10, <1>11, Zenon DEF Nested!Next
-----------------------------------------------------------------------------
(* The whole.                                                              *)

\* The parts hold their invariants at the start: the previews ...
LEMMA PreviewsStart ==
  ASSUME Audio!Init, Pictures!Init, Text!Init, Captions!Init
  PROVE  QueueInv /\ EventsInv /\ ImagesInv /\ TextInv /\ CaptionsInv
<1>1. QueueInv
  <2>1. queue = <<>> /\ session = None /\ track = None /\ audioError = None
    BY DEF Audio!Init
  <2>2. <<>> \in Seq(Audio!Paths) /\ IsInjective(<<>>) /\ Audio!Elements(<<>>) = {}
    BY DEF IsInjective, Audio!Elements
  <2> QED  BY <2>1, <2>2 DEF QueueInv, Sound
<1>2. EventsInv
  <2>1. events = <<>> /\ audio = FALSE /\ video = FALSE
    BY DEF Audio!Init
  <2>2. <<>> \in Seq({"audio", "video", "ended"})
    OBVIOUS
  <2> QED  BY <2>1, <2>2 DEF EventsInv
<1>3. ImagesInv
  BY DEF Pictures!Init, ImagesInv, Apart, Alive, AwaitedIsSelected, Pictures!UrlsAreOwned
<1>4. TextInv
  BY ClientConstants DEF Text!Init, TextInv, Text!Nothing, Text!Page, Text!PageIsAsked
<1>5. CaptionsInv
  BY DEF Captions!Init, CaptionsInv, Captions!SubtitlesMatch
<1> QED  BY <1>1, <1>2, <1>3, <1>4, <1>5

\* ... the page ...
LEMMA PageStarts ==
  ASSUME Page!Init
  PROVE  PageInv
<1>1. Page!Nowhere \in Page!Location /\ (Page!Nowhere.live # None => Page!Nowhere.session = None)
  BY DEF Page!Nowhere, Page!Location
<1>2. Visited(at) /\ Visited(previous)
  BY <1>1 DEF Page!Init, Visited
<1>3. PageCore
  <2>1. /\ exists \in SUBSET Roots /\ gone = {} /\ list = None /\ asked = None /\ requests = {}
        /\ nav = None /\ shown = None /\ parents = <<>> /\ live = None /\ error = FALSE
    BY DEF Page!Init
  <2>2. None \notin Roots /\ <<>> \in Seq(Page!Openable)
    BY ClientConstants
  <2>3. Asked /\ Answers
    BY <2>1, <2>2 DEF Asked, Answers
  <2>4. Page!ShownIsAsked /\ Page!OneThing
    BY <2>1 DEF Page!ShownIsAsked, Page!OneThing
  <2>5. exists \subseteq Page!Openable /\ gone \subseteq Page!Openable /\ parents \in Seq(Page!Openable)
    BY <2>1, <2>2 DEF Page!Openable
  <2> QED  BY <2>1, <2>3, <2>4, <2>5, Zenon DEF PageCore
<1> QED  BY <1>2, <1>3 DEF PageInv

\* ... the player ...
LEMMA PlayerStarts ==
  ASSUME Player!Init
  PROVE  AttachedInv /\ SavedInv /\ RestoreWaits
<1>1. AttachedInv /\ RestoreWaits
  BY DEF Player!Init, AttachedInv, RestoreWaits, Player!AttachedIsSelected
<1>2. 0 \in Player!Positions /\ 1 \in Player!Positions
  BY PositionsKnown
<1>3. Player!NoResume \in Resume /\ Fits(Player!NoResume, None, stored, reached)
  BY DEF Player!NoResume, Resume, Fits
<1>4. stored \in Saved /\ reached \in Played /\ PlayedAt(stored, reached)
  <2>1. stored \in [Videos -> {0, 1}] /\ reached = [f \in Videos |-> {stored[f]}]
    BY DEF Player!Init
  <2> QED  BY <1>2, <2>1 DEF Saved, Played, PlayedAt
<1>5. SavedInv
  <2>1. /\ file = None /\ resume = Player!NoResume /\ ready = FALSE /\ loaded = FALSE /\ playing = FALSE
        /\ time = 0 /\ start = 0 /\ restore = None
    BY DEF Player!Init
  <2> QED  BY <1>2, <1>3, <1>4, <2>1 DEF SavedInv
<1> QED  BY <1>1, <1>5

\* ... and the tree and the dialogs.
LEMMA DialogsStart ==
  ASSUME Tree!Init, Choosing!Init, Adds!Init, Nested!Init
  PROVE  NavigationInv /\ ChoosingInv /\ DraftsInv /\ NestedInv
<1>1. NavigationInv
  <2>1. /\ tree \in Trees /\ filter = NoFilter /\ expanded = {Tree!Root} /\ before = {Tree!Root} /\ collapsed = {}
        /\ active = 1 /\ focused = None /\ moved = FALSE /\ touched = FALSE
    BY DEF Tree!Init
  <2>2. filter \in Filters
    BY <2>1, ClientConstants
  <2>3. 1 \in 1..Len(Tree!Rows)
    BY <2>1, <2>2, PageRows DEF RowsLie
  <2>4. Tree!SearchRestores
    BY <2>1 DEF Tree!SearchRestores
  <2> QED  BY <2>1, <2>2, <2>3, <2>4, Zenon DEF NavigationInv
<1>2. ChoosingInv
  BY DEF Choosing!Init, Choosing!Nothing, ChoosingInv, OwnOne, Choosing!AcceptedIsChecked
<1>3. DraftsInv
  <2>1. lines = <<>> /\ drafts = <<>> /\ nextId = 0 /\ submitting = FALSE /\ batch = <<>> /\ changed = FALSE
    BY DEF Adds!Init
  <2>2. Limit \in Nat /\ <<>> \in Seq(Urls)
    BY ClientConstants
  <2>3. Numbered(<<>>, 0)
    BY <2>2 DEF Numbered
  <2>4. Adds!BatchIsKept /\ Adds!BatchIsSound
    BY <2>1, <2>2 DEF Adds!BatchIsKept, Adds!BatchIsSound, Adds!IsInjective
  <2> QED  BY <2>1, <2>2, <2>3, <2>4 DEF DraftsInv
<1>4. NestedInv
  BY DEF Nested!Init, NestedInv, Nested!OpenedIsWanted, Nested!ClosingWaits
<1> QED  BY <1>1, <1>2, <1>3, <1>4

\* Every step of the whole is a step of one part and leaves the others alone.
LEMMA PartsMove ==
  [Next]_vars =>
    /\ Page!Next \/ UNCHANGED ofPage
    /\ Audio!Next \/ UNCHANGED ofAudio
    /\ Pictures!Next \/ UNCHANGED ofImages
    /\ Text!Next \/ UNCHANGED ofText
    /\ Captions!Next \/ UNCHANGED ofCaptions
    /\ Player!Next \/ UNCHANGED ofPlayer
    /\ Tree!Next \/ UNCHANGED ofTree
    /\ Choosing!Next \/ UNCHANGED ofChoices
    /\ Adds!Next \/ UNCHANGED ofDrafts
    /\ Nested!Next \/ UNCHANGED ofNested
BY DEF Next, vars, ofPreviews, ofDialogs, PageMoves, AudioMoves, ImagesMove, TextMoves, CaptionsMove, PlayerMoves,
       TreeMoves, ChoicesMove, DraftsMove, NestedMoves

\* What the player's parts need of each other.
PlayerInv == AttachedInv /\ SavedInv /\ RestoreWaits
\* Every step of the player keeps them.
LEMMA PlayerInvNext ==
  ASSUME PlayerInv, Player!Next \/ UNCHANGED ofPlayer
  PROVE  PlayerInv'
BY AttachedInvNext, SavedInvNext, RestoreWaitsNext, Zenon DEF PlayerInv

\* The queue lists as many tracks as it has places.
LEMMA QueueIsSound ==
  ASSUME QueueInv
  PROVE  QueueHoldsTrack
<1>1. session \in Sessions \cup {None} /\ Sound(queue, session) /\ None \notin Sessions
  BY ClientConstants DEF QueueInv
<1>2. Audio!Cardinality(Audio!Elements(queue)) = Len(queue)
  BY <1>1, EachOnce DEF Sound
<1>3. track # None => track \in Audio!Elements(queue)
  BY DEF QueueInv
<1>4. track # None => track \in Audio!Elements(Songs[session])
  <2>1. ASSUME track # None PROVE track \in Playable(session)
    BY <1>1, <1>3, <2>1 DEF Sound
  <2> QED  BY <2>1 DEF Playable
<1>5. Audio!ErrorIsCurrent
  BY DEF QueueInv, Audio!ErrorIsCurrent
<1> QED  BY <1>2, <1>3, <1>4, <1>5 DEF QueueHoldsTrack, Audio!QueueHoldsTrack

\* Identifiers that were given out once are of one draft.
LEMMA OneDraftEach ==
  ASSUME DraftsInv
  PROVE  Adds!OneRowEach
<1>1. \A i, j \in DOMAIN drafts : drafts[i].id = drafts[j].id => i = j
  BY DEF DraftsInv, Numbered
<1> QED  BY <1>1, SameInjective DEF Adds!OneRowEach

\* useWorkspacePreviewNavigation.ts: in whatever order the trees of the sessions asked
\* for arrive, a page at rest shows the one it names, or says one thing instead; for
\* any sessions, downloads and children.
THEOREM ClientShownIsAsked == Spec => []ShownIsAsked
<1>1. Init => PageInv
  BY PageStarts DEF Init
<1>2. PageInv /\ [Next]_vars => PageInv'
  BY PartsMove, PageInvNext
<1>3. PageInv => ShownIsAsked
  BY DEF PageInv, PageCore, ShownIsAsked
<1> QED  BY <1>1, <1>2, <1>3, PTL DEF Spec

\* useWorkspacePreviewNavigation.ts: no step takes the download that the page shows
\* off the list while the server has it, however old the answer is.
THEOREM ClientOpenedStaysListed == Spec => OpenedStaysListed
<1>1. Init => PageInv
  BY PageStarts DEF Init
<1>2. PageInv /\ [Next]_vars => PageInv'
  BY PartsMove, PageInvNext
<1> DEFINE Kept == (shown \in Roots \cap exists' /\ shown' = shown /\ Page!Listed(shown)) => (Page!Listed(shown)' = TRUE)
<1>3. PageInv /\ [Next]_vars => [Kept]_ofPage
  <2> SUFFICES ASSUME PageInv, [Next]_vars, ~UNCHANGED ofPage PROVE Kept
    OBVIOUS
  <2>1. Page!Next
    BY PartsMove
  <2> QED  BY <2>1, PageStaysListed
<1> QED  BY <1>1, <1>2, <1>3, PTL DEF Spec, OpenedStaysListed

\* useAudioElement.ts, VideoPlayer.tsx: once their events are dispatched, audio and
\* video never play together; for any tracks and any number of events under way.
THEOREM ClientNeverBoth == Spec => []NeverBoth
<1>1. Init => EventsInv
  BY PreviewsStart DEF Init
<1>2. EventsInv /\ [Next]_vars => EventsInv'
  BY PartsMove, EventsInvNext
<1>3. EventsInv => NeverBoth
  BY DEF EventsInv, Pending, NeverBoth, Audio!NeverBoth
<1> QED  BY <1>1, <1>2, <1>3, PTL DEF Spec

\* useAudioPlayback.ts: through every removal, move, shuffle and change of session, the
\* queue lists each of its tracks once, the loaded one among them, and an error is
\* about that one; for any sessions and folders.
THEOREM ClientQueueHoldsTrack == Spec => []QueueHoldsTrack
<1>1. Init => QueueInv
  BY PreviewsStart DEF Init
<1>2. QueueInv /\ [Next]_vars => QueueInv'
  BY PartsMove, QueueInvNext
<1> QED  BY <1>1, <1>2, QueueIsSound, PTL DEF Spec

\* useImagePreviewCache.ts, useTextPreview.ts, useVideoSubtitles.ts, useVideoSource.ts:
\* what the previews show is of the selected file, whichever answers for files left
\* meanwhile arrive and in which order; for any files, pages and tracks.  Of an image
\* this is said once its request has been answered.
THEOREM ClientPreviewIsSelected == Spec => []PreviewIsSelected
<1> DEFINE Inv == ImagesInv /\ TextInv /\ CaptionsInv /\ PlayerInv
<1>1. Init => Inv
  BY PreviewsStart, PlayerStarts DEF Init, PlayerInv
<1>2. Inv /\ [Next]_vars => Inv'
  BY PartsMove, ImagesInvNext, TextInvNext, CaptionsInvNext, PlayerInvNext
<1>3. Inv => PreviewIsSelected
  BY DEF ImagesInv, TextInv, CaptionsInv, PlayerInv, AttachedInv, PreviewIsSelected
<1> QED  BY <1>1, <1>2, <1>3, PTL DEF Spec

\* useVideoResume.ts: a position that is saved is one the file was played at, and the
\* one that is offered stays saved; for any files and positions.
THEOREM ClientSavedIsOwn == Spec => []SavedIsOwn
<1>1. Init => PlayerInv
  BY PlayerStarts DEF Init, PlayerInv
<1>2. PlayerInv /\ [Next]_vars => PlayerInv'
  BY PartsMove, PlayerInvNext
<1>3. PlayerInv => SavedIsOwn
  BY DEF PlayerInv, SavedInv, Fits, PlayedAt, SavedIsOwn, Player!SavedIsOwn
<1> QED  BY <1>1, <1>2, <1>3, PTL DEF Spec

\* TreeExplorerNavigation.ts, ArchiveFileDialog.tsx, DownloadDialog.tsx,
\* NestedArchiveDialog.tsx: a key, a click or an answer acts on what the user sees; for
\* any trees, filters, archives, batches and orders of the answers.
THEOREM ClientActsOnShown == Spec => []ActsOnShown
<1> DEFINE Inv == NavigationInv /\ ChoosingInv /\ DraftsInv /\ NestedInv
<1>1. Init => Inv
  BY DialogsStart DEF Init
<1>2. Inv /\ [Next]_vars => Inv'
  BY PartsMove, NavigationInvNext, ChoosingInvNext, DraftsInvNext, NestedInvNext
<1>3. Inv => ActsOnShown
  <2> SUFFICES ASSUME Inv PROVE ActsOnShown
    OBVIOUS
  <2>1. Tree!ActsOnFocused
    BY Zenon DEF NavigationInv, Tree!ActsOnFocused, Tree!Current
  <2>2. Tree!MatchesShown /\ Tree!SearchRestores
    BY MatchesAreShown DEF NavigationInv
  <2>3. Choosing!AcceptedIsChecked /\ Choosing!BusyIsSending
    BY OneIsSent DEF ChoosingInv
  <2>4. Adds!OneRowEach /\ Adds!BatchIsKept /\ Adds!BatchIsSound
    BY OneDraftEach DEF DraftsInv
  <2>5. Nested!OpenedIsWanted /\ Nested!ClosingWaits
    BY DEF NestedInv
  <2> QED  BY <2>1, <2>2, <2>3, <2>4, <2>5, Zenon DEF ActsOnShown
<1> QED  BY <1>1, <1>2, <1>3, PTL DEF Spec
=============================================================================
