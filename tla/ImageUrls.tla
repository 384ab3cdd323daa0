------------------------------ MODULE ImageUrls ------------------------------
(***************************************************************************)
(* The client's cache of image previews: requests shared by the selected   *)
(* image and the preloaded neighbours, the object URLs they create, and    *)
(* the one the preview shows.  An entry and its object URL have one        *)
(* number; an image stands for a path at a preview quality.                *)
(***************************************************************************)
EXTENDS Naturals, FiniteSets

CONSTANTS
    Sessions, Images,
    Near,       \* the images preloaded beside each
    Ids,        \* bound on the entries alive at once
    None

VARIABLES
    owner,      \* the session shown
    image,      \* the selected image
    cached,     \* the entry of each key, None without one
    urls,       \* the object URLs created and not revoked
    fetches,    \* entries whose request has not settled, with their keys
    awaited,    \* the entry the selection's effect waits for
    src         \* selectedImageSrc: an entry's URL, "plain" or None

vars == <<owner, image, cached, urls, fetches, awaited, src>>

Keys == Sessions \X Images
Fetch == [id : Ids, key : Keys]
Unused == Ids \ ({cached[k] : k \in Keys} \cup urls \cup {f.id : f \in fetches} \cup {src})

TypeOK ==
    /\ owner \in Sessions \cup {None} /\ image \in Images \cup {None}
    /\ cached \in [Keys -> Ids \cup {None}] /\ urls \subseteq Ids /\ fetches \subseteq Fetch
    /\ awaited \in Ids \cup {None} /\ src \in Ids \cup {None, "plain"}

Init ==
    /\ owner = None /\ image = None /\ cached = [k \in Keys |-> None]
    /\ urls = {} /\ fetches = {} /\ awaited = None /\ src = None

\* The selected image and its neighbours; those without an entry are requested.
Want(s, i) == {<<s, j>> : j \in {i} \cup Near[i]}

Load(s, i) ==
    LET missing == {k \in Want(s, i) : cached[k] = None}
    IN  \E fresh \in [missing -> Unused] :
            /\ \A k, l \in missing : fresh[k] = fresh[l] => k = l
            /\ cached' = [k \in Keys |-> IF k \in missing THEN fresh[k] ELSE cached[k]]
            /\ fetches' = fetches \cup {[id |-> fresh[k], key |-> k] : k \in missing}

Select(s, i) ==
    /\ Load(s, i)
    /\ owner' = s /\ image' = i
    /\ LET id == cached'[<<s, i>>]
       IN  IF id \in urls THEN src' = id /\ awaited' = None
           ELSE awaited' = id /\ UNCHANGED src
    /\ UNCHANGED urls

\* A session is entered from the empty page, which shows no image.
Enter(s, i) == owner = None /\ Select(s, i)

SelectImage(i) == owner # None /\ i # image /\ Select(owner, i)

SelectOther ==
    /\ image # None
    /\ image' = None /\ src' = None /\ awaited' = None
    /\ UNCHANGED <<owner, cached, urls, fetches>>

Leave ==
    /\ owner # None
    /\ owner' = None /\ image' = None /\ src' = None /\ awaited' = None
    /\ urls' = urls \ {cached[k] : k \in Keys}
    /\ cached' = [k \in Keys |-> None]
    /\ UNCHANGED fetches

\* FAULT: an answer creates its URL whether or not its entry is still cached.
CurrentAlways(f) == TRUE

Current(f) == cached[f.key] = f.id

Arrives(f) ==
    /\ fetches' = fetches \ {f}
    /\ urls' = IF Current(f) THEN urls \cup {f.id} ELSE urls
    /\ IF awaited = f.id
       THEN src' = (IF Current(f) THEN f.id ELSE None) /\ awaited' = None
       ELSE UNCHANGED <<src, awaited>>
    /\ UNCHANGED <<owner, image, cached>>

Fails(f) ==
    /\ fetches' = fetches \ {f}
    /\ cached' = IF Current(f) THEN [cached EXCEPT ![f.key] = None] ELSE cached
    /\ IF awaited = f.id
       THEN src' = "plain" /\ awaited' = None
       ELSE UNCHANGED <<src, awaited>>
    /\ UNCHANGED <<owner, image, urls>>

Next ==
    \/ \E s \in Sessions, i \in Images : Enter(s, i)
    \/ \E i \in Images : SelectImage(i)
    \/ SelectOther \/ Leave
    \/ \E f \in fetches : Arrives(f)
    \/ \E f \in fetches : Fails(f)

Spec == Init /\ [][Next]_vars
-----------------------------------------------------------------------------
\* Every object URL is one of a cached entry, so leaving a session revokes them
\* all (useImagePreviewCache.ts:43-44), and the one shown is the selected image's
\* unless its request goes on or has failed.
UrlsAreOwned ==
    /\ urls \subseteq {cached[k] : k \in Keys}
    /\ image # None /\ awaited = None => src = "plain" \/ (src \in urls /\ src = cached[<<owner, image>>])
=============================================================================
