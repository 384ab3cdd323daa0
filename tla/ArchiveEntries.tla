--------------------------- MODULE ArchiveEntries ---------------------------
(***************************************************************************)
(* The paths of an archive: what a listing must satisfy to be accepted      *)
(* (archiveLimits.ts, openZip of zipManifest.ts, inspect7zip of              *)
(* commandRunner.ts), the extraction of the selected entries in listing      *)
(* order on a file system that may ignore the case of names, and the tree    *)
(* the explorer shows (explorerTree.ts, listExtractedEntries.ts).            *)
(*                                                                           *)
(* A path is a sequence of names; "A" and "a" differ in case only, and       *)
(* "unsafe" stands for what no entry may be: a path with "..", a device name, a       *)
(* trailing dot or a control character, a link, an encrypted file.           *)
(***************************************************************************)
EXTENDS Naturals, SequencesExt

CONSTANTS Names,       \* the names entries are made of
          MaxEntries,  \* bound: the entries of a listing
          MaxNames,    \* bound: the names of a path
          MaxPaths,    \* MAX_RESOURCE_ENTRIES
          MaxBytes     \* MAX_RESOURCE_BYTES

VARIABLES
  format,   \* zip, or an archive 7-Zip reads
  listing,  \* the entries: path, directory?, place (of its local header)
  phase,    \* where the extraction is
  chosen,   \* the selected entries, as indices of the listing
  folding,  \* does the file system ignore case?
  next,     \* the entry that is extracted next
  files, directories,  \* what is on disk, as the file system names it
  written,  \* the extracted entries, in order
  total,    \* entryCount of inspect7zip
  tree      \* nodes of buildTree: path -> kind

vars == <<format, listing, phase, chosen, folding, next, files, directories, written, total, tree>>

Paths == {<<"unsafe">>} \cup UNION {[1..n -> Names] : n \in 1..MaxNames}
Entries == [path : Paths, directory : BOOLEAN, place : {1, 2}]

\* normalize("NFC").toLowerCase()
Fold(path) == [i \in DOMAIN path |-> IF path[i] = "A" THEN "a" ELSE path[i]]
Upto(path) == Prefixes(path) \ {<<>>}
Parents(path) == Upto(path) \ {path}

Name(i) == Fold(listing[i].path)
Bytes(i) == IF listing[i].directory THEN 0 ELSE 1

\* Nothing is inspected or extracted yet.
Rests ==
  /\ phase = "listed" /\ chosen = {} /\ next = 1
  /\ files = {} /\ directories = {} /\ written = <<>> /\ total = 0 /\ tree = {}

Init ==
  /\ format \in {"zip", "7z"}
  /\ \E n \in 1..MaxEntries : listing \in [1..n -> Entries]
  /\ \A i, j \in DOMAIN listing : format = "7z" => listing[i].place = 1
  /\ folding \in BOOLEAN /\ Rests
-----------------------------------------------------------------------------
\* validateArchiveEntries: safe paths, and bounds on all of their prefixes and bytes.
WithinBounds ==
  /\ Cardinality(UNION {Upto(listing[i].path) : i \in DOMAIN listing}) <= MaxPaths
  /\ Cardinality({i \in DOMAIN listing : Bytes(i) = 1}) <= MaxBytes
Safe == \A i \in DOMAIN listing : "unsafe" \notin ToSet(listing[i].path)

\* FAULT: names are compared as they are written.
DistinctAsWritten == \A i, j \in DOMAIN listing : i # j => listing[i].path # listing[j].path

\* Names are compared folded, and no two ZIP entries share their data.
Distinct ==
  \A i, j \in DOMAIN listing : i # j =>
    Name(i) # Name(j) /\ (format = "zip" => listing[i].place # listing[j].place)

\* FAULT: folders are compared as they are written.
NestedAsWritten ==
  \A i, j \in DOMAIN listing :
    ~listing[j].directory => listing[j].path \notin Parents(listing[i].path)

\* No file is the folder of another entry.
Nested == \A i, j \in DOMAIN listing : ~listing[j].directory => Name(j) \notin Parents(Name(i))

Accepted == Safe /\ WithinBounds /\ Distinct /\ Nested

\* inspectZip, inspect7zip and the selection, by index: files only, or everything.
Inspect ==
  /\ phase = "listed"
  /\ IF ~Accepted THEN phase' = "refused" /\ UNCHANGED <<chosen, total>>
     ELSE /\ phase' = "extracting"
          /\ \/ chosen' = DOMAIN listing
             \/ \E i \in {j \in DOMAIN listing : ~listing[j].directory} : chosen' = {i}
          /\ total' = Cardinality(UNION {Upto(Name(i)) : i \in DOMAIN listing})
  /\ UNCHANGED <<format, listing, folding, next, files, directories, written, tree>>

OnDisk(path) == IF folding THEN Fold(path) ELSE path

\* One entry: mkdir with its parents, and a file opened with "wx".
Extract ==
  LET entry == listing[next]  path == OnDisk(entry.path) IN
  /\ phase = "extracting" /\ next \in chosen
  /\ LET made == IF entry.directory THEN Upto(path) ELSE Parents(path) IN
     IF \/ made \cap files # {}
        \/ ~entry.directory /\ path \in files \cup directories
     THEN phase' = "collided" /\ UNCHANGED <<files, directories, written, next>>
     ELSE /\ directories' = directories \cup made
          /\ files' = IF entry.directory THEN files ELSE files \cup {path}
          /\ written' = Append(written, next) /\ next' = next + 1
          /\ UNCHANGED phase
  /\ UNCHANGED <<format, listing, chosen, folding, total, tree>>

Skip ==
  /\ phase = "extracting" /\ next \in DOMAIN listing \ chosen
  /\ next' = next + 1
  /\ UNCHANGED <<format, listing, phase, chosen, folding, files, directories, written, total, tree>>

\* FAULT: the nodes above an entry take its type.
NodesOfType(entry, prefix, nodes) ==
  IF \E node \in nodes : node.path = prefix THEN {}
  ELSE {[path |-> prefix, kind |-> IF entry.directory THEN "directory" ELSE "file"]}

\* buildTree: an entry adds the nodes of its path that are not there yet.
Nodes(entry, prefix, nodes) ==
  IF \E node \in nodes : node.path = prefix THEN {}
  ELSE {[path |-> prefix, kind |-> IF prefix = entry.path /\ ~entry.directory THEN "file" ELSE "directory"]}

\* The session's tree is built from what was extracted.
BuildTree ==
  /\ phase = "extracting" /\ next > Len(listing)
  /\ phase' = "ready"
  /\ tree' = FoldSeq(LAMBDA i, nodes :
                       nodes \cup UNION {Nodes(listing[i], p, nodes) : p \in Upto(listing[i].path)},
                     {}, written)
  /\ UNCHANGED <<format, listing, chosen, folding, next, files, directories, written, total>>

Next == Inspect \/ Extract \/ Skip \/ BuildTree
-----------------------------------------------------------------------------
\* An accepted archive is extracted whole, in the order of its listing, whether or
\* not the file system tells "A" from "a": no entry meets a file or a folder of
\* another, and each selected file is one file on disk.
NoCollision ==
  /\ phase # "collided"
  /\ phase = "ready" => Cardinality(files) = Cardinality({i \in chosen : ~listing[i].directory})

\* The explorer shows each path once, below folders, and every file with its kind;
\* the total that progress counts to is reached by a complete extraction.
TreeIsDisk ==
  phase = "ready" =>
    /\ {OnDisk(node.path) : node \in {n \in tree : n.kind = "file"}} = files
    /\ {OnDisk(node.path) : node \in {n \in tree : n.kind = "directory"}} = directories
    /\ \A n, m \in tree : n.path = m.path => n = m
    /\ folding /\ chosen = DOMAIN listing => total = Cardinality(files \cup directories)
=============================================================================
