------------------------------ MODULE Placement ------------------------------
(***************************************************************************)
(* How an intercepted object becomes changes of a git worktree: the        *)
(* providers render it into artifacts, the placement phase looks for each  *)
(* artifact's document in the worktree (resource finder, with a cache of   *)
(* paths) or writes it to its default file, and the commit stages the      *)
(* claimed paths.                                                          *)
(*                                                                         *)
(* A worktree is a function from the paths of its files to their YAML      *)
(* documents, in order.  A document is the object it describes and a       *)
(* version of its content; excluded fields, formatting and encryption do   *)
(* not change which object it is.                                          *)
(***************************************************************************)
EXTENDS Integers, Sequences, FiniteSets, SequencesExt

CONSTANTS
  Objects,     \* identities (group, resource, namespace, name)
  DefaultPath, \* intercepted object -> what is written for it ->
               \* [RootPath/]namespace/group/version/resource/name.yaml
  SharedPath,  \* a file people keep several documents in
  Derived,     \* object -> what the Helm and Flux providers write in its place
  None

ASSUME PlacementAssumption ==
  /\ DOMAIN DefaultPath = Objects /\ DOMAIN Derived = Objects
  /\ \A o \in Objects : DOMAIN DefaultPath[o] = Objects
  /\ \A o \in Objects : Derived[o] \subseteq Objects /\ Derived[o] # {}
  /\ IsFiniteSet(Objects) /\ Objects # {}
  /\ None \notin {"old", "new", "final"}

\* The default layout takes the namespace and the name of the intercepted
\* object and the resource of what is written, and gives that a file of its
\* own: one for each object it is derived from.
ASSUME OwnFileAssumption ==
  \A o, sel \in Objects :
    /\ DefaultPath[o][sel] # SharedPath
    /\ \A q, other \in Objects : DefaultPath[o][sel] = DefaultPath[q][other] => sel = other

Paths == {DefaultPath[o][sel] : o, sel \in Objects} \cup {SharedPath}
Docs == [obj : Objects, ver : {"old", "new"}]
Doc(o, v) == [obj |-> o, ver |-> v]

(***************************************************************************)
(* Documents of a file.                                                    *)
(***************************************************************************)
matchDoc(doc, sel) == doc.obj = sel

Matches(content, sel) == {i \in DOMAIN content : matchDoc(content[i], sel)}

\* Mutant of ReplaceDocInContent: the file is taken for the object's own.
ReplaceWholeContent(content, sel, ver) == IF ver = None THEN <<>> ELSE <<Doc(sel, ver)>>

\* The first matching document is replaced, or dropped when ver is None.
ReplaceDocInContent(content, sel, ver) ==
  LET i == CHOOSE j \in Matches(content, sel) : \A k \in Matches(content, sel) : j <= k
  IN IF ver = None THEN RemoveAt(content, i) ELSE ReplaceAt(content, i, Doc(sel, ver))

(***************************************************************************)
(* Files of a worktree.                                                    *)
(***************************************************************************)
WriteFile(tree, path, content) ==
  [p \in DOMAIN tree \cup {path} |-> IF p = path THEN content ELSE tree[p]]

RemoveFiles(tree, paths) == [p \in DOMAIN tree \ paths |-> tree[p]]

\* The paths of a worktree that hold the object.
Holding(tree, sel) == {p \in DOMAIN tree : Matches(tree[p], sel) # {}}

\* A file left without documents is removed.
applyReplacement(tree, paths, sel, ver) ==
  LET new == [p \in DOMAIN tree |->
                IF p \in paths THEN ReplaceDocInContent(tree[p], sel, ver) ELSE tree[p]]
  IN RemoveFiles(new, {p \in paths : new[p] = <<>>})

(***************************************************************************)
(* Claims: what a placement did to the worktree, which paths it claims as  *)
(* added and as deleted, and what the path cache remembers afterwards.     *)
(***************************************************************************)
NoClaim(tree, cache) == [tree |-> tree, add |-> {}, delete |-> {}, cache |-> cache]

\* Mutant of Claim: deletions are claimed as additions.
ClaimAdded(c, tree, paths, ver, cache) ==
  [tree |-> tree, add |-> (c.add \cup paths) \cap DOMAIN tree, delete |-> c.delete,
   cache |-> cache]

Claim(c, tree, paths, ver, cache) ==
  [tree |-> tree, cache |-> cache,
   add |-> IF ver = None THEN c.add ELSE c.add \cup paths,
   delete |-> IF ver = None THEN c.delete \cup paths ELSE c.delete]

\* What the cache remembers after a full walk: a path that is the only match,
\* or that there are several and the key is never to be cached.
recordMatches(matched, ver) ==
  IF ver = None \/ matched = {} THEN None
  ELSE IF Cardinality(matched) = 1 THEN CHOOSE p \in matched : TRUE
  ELSE "NoCache"

\* Mutant of ReplaceObject: a remembered path that no longer holds the object
\* ends the search.
TrustRememberedPath(c, sel, ver) ==
  LET holding == Holding(c.tree, sel)
      known   == c.cache[sel] \notin {None, "NoCache"}
      paths   == IF known THEN {c.cache[sel]} \cap holding ELSE holding
  IN Claim(c, applyReplacement(c.tree, paths, sel, ver), paths, ver,
           [c.cache EXCEPT ![sel] = recordMatches(paths, ver)])

\* A remembered path is used when its file still holds the object; otherwise
\* every file that holds it is rewritten.
ReplaceObject(c, sel, ver) ==
  LET holding == Holding(c.tree, sel)
      fast    == c.cache[sel] \in holding
      paths   == IF fast THEN {c.cache[sel]} ELSE holding
      entry   == IF fast /\ ver # None THEN c.cache[sel] ELSE recordMatches(paths, ver)
  IN Claim(c, applyReplacement(c.tree, paths, sel, ver), paths, ver,
           [c.cache EXCEPT ![sel] = entry])

\* The default file of what is written is its own: it is replaced as a whole, and on
\* a deletion emptied, then removed by the commit.
DefaultPlace(obj, c, sel, ver) ==
  LET path == DefaultPath[obj][sel]
  IN Claim(c, WriteFile(c.tree, path, IF ver = None THEN <<>> ELSE <<Doc(sel, ver)>>),
           {path}, ver, c.cache)

\* An artifact without content is a deletion: the request is one, or a provider
\* emitted empty values for it.
ArtifactContents(ver, empty) == [sel \in Objects |-> IF sel \in empty THEN None ELSE ver]

\* The resource finder and the default placement take the artifacts one after
\* the other.
placeOne(finder, obj, c, sel, ver) ==
  IF finder THEN ReplaceObject(c, sel, ver) ELSE DefaultPlace(obj, c, sel, ver)

place(finder, obj, none, artifacts, contents) ==
  LET placed[i \in 0 .. Len(artifacts)] ==
        IF i = 0 THEN none
        ELSE placeOne(finder, obj, placed[i - 1], artifacts[i], contents[artifacts[i]])
  IN placed[Len(artifacts)]

\* The default placement applies when the resource finder is off, or claimed
\* nothing for any of the artifacts.
placeArtifacts(tree, cache, finder, obj, sels, contents) ==
  LET none  == NoClaim(tree, cache)
      found == IF finder THEN place(TRUE, obj, none, SetToSeq(sels), contents) ELSE none
  IN IF found.add \cup found.delete # {} THEN found
     ELSE place(FALSE, obj, found, SetToSeq(sels), contents)

(***************************************************************************)
(* The providers.  None of them may handle the object (then it is written  *)
(* as it is); they may write the objects it stands for in its place, some  *)
(* of them empty, claim it and write nothing, or give the final content of *)
(* a file, as the kustomize provider does.                                 *)
(***************************************************************************)
Renderings == {"unhandled", "derived", "claimed", "wholeFile"}

\* The file of a kustomize bundle that holds the object's patch.
Bundle(tree, sel, ver) ==
  LET old == IF SharedPath \in DOMAIN tree THEN tree[SharedPath] ELSE <<>>
  IN IF Matches(old, sel) # {} THEN ReplaceDocInContent(old, sel, ver)
     ELSE IF ver = None THEN old ELSE Append(old, Doc(sel, ver))

writeWholeFile(c, path, content) ==
  IF content = <<>>
    THEN Claim(c, RemoveFiles(c.tree, {path}), {path} \cap DOMAIN c.tree, None, c.cache)
    ELSE Claim(c, WriteFile(c.tree, path, content), {path}, "final", c.cache)

GenerateFinalWorktree(tree, cache, finder, rendering, obj, ver, empty) ==
  CASE rendering = "unhandled" ->
         placeArtifacts(tree, cache, finder, obj, {obj}, ArtifactContents(ver, {}))
    [] rendering = "derived"   ->
         placeArtifacts(tree, cache, finder, obj, Derived[obj], ArtifactContents(ver, empty))
    [] rendering = "claimed"   -> NoClaim(tree, cache)
    [] rendering = "wholeFile" ->
         writeWholeFile(NoClaim(tree, cache), SharedPath, Bundle(tree, obj, ver))

(***************************************************************************)
(* The commit: added paths are staged from the worktree, then the deleted  *)
(* ones are removed from the index and from the worktree.  The rest of the *)
(* tree is the parent's.                                                   *)
(***************************************************************************)
CommittedTree(parent, c) ==
  [p \in (DOMAIN parent \cup c.add) \ c.delete |->
     IF p \in c.add THEN c.tree[p] ELSE parent[p]]

\* How many documents of a tree describe the object.
Copies(tree, sel) ==
  Cardinality(UNION {{p} \X Matches(tree[p], sel) : p \in DOMAIN tree})

\* The documents of a file, none if it is not there.
Content(tree, p) == IF p \in DOMAIN tree THEN tree[p] ELSE <<>>

\* The documents of a file that do not describe any of some objects.
OtherDocs(content, sels) == {i \in DOMAIN content : content[i].obj \notin sels}

\* Two files hold the same documents of other objects, in the same order.
SameSiblings(old, new, sels) ==
  \E f \in [OtherDocs(old, sels) -> OtherDocs(new, sels)] :
    /\ {f[i] : i \in DOMAIN f} = OtherDocs(new, sels)
    /\ \A i \in DOMAIN f : new[f[i]] = old[i]
    /\ \A i, j \in DOMAIN f : i < j => f[i] < f[j]

KeepsSiblings(old, new, sels) ==
  \A p \in Paths : SameSiblings(Content(old, p), Content(new, p), sels)

\* The same, but for the files that hold one of some objects.
KeepsSiblingsWithout(drops, old, new, sels) ==
  \A p \in Paths :
    (\A o \in drops : Matches(Content(old, p), o) = {}) =>
      SameSiblings(Content(old, p), Content(new, p), sels)
=============================================================================
