------------------------------ MODULE AssetMgr ------------------------------
(***************************************************************************)
(* The asset manager (src/assetmgr): one Manager, the requests it serves,  *)
(* the deployments that replace it, and the browser's cache.               *)
(*                                                                         *)
(* build walks the file systems, compiles CSS and JS (in production only)  *)
(* and merges the import maps, all with m.mu held; a reader needs it for   *)
(* one look-up.  In development every request builds first, from files     *)
(* that change and may be unreadable (os.DirFS); in production the files   *)
(* are those of the binary (embed.FS) and change by a deployment.          *)
(*                                                                         *)
(* A content is a version of a file with the versioned paths its references*)
(* were rewritten to; its hash is a digest that tells contents apart, here *)
(* the content itself.  A versioned path is a path with such a hash.  An   *)
(* asset that was not compiled has <<>> where the code has nil.            *)
(***************************************************************************)
EXTENDS Naturals, Sequences

CONSTANTS
  Files,      \* the files, of all file systems
  Paths,      \* the logical paths, existing or not
  PathOf,     \* the logical path of each file
  Lang,       \* the language of each path: "js", "css" or "other"
  Refs,       \* the references in each file: how they are written, where they lead
  WalkOrder,  \* the order in which walkFS meets the files
  MapPaths,   \* importMapPaths
  Entries,    \* the entries of the import map at each path
  NoJson,     \* the files and versions whose text is no JSON
  Versions,   \* the versions a file may have
  Reqs,       \* the requests, each made once
  ReqPath,    \* the path of each
  Reloads,    \* the calls of Reload
  MaxEdits,   \* bound: how often a file changes
  New,        \* the call of New
  None

Ref == [kind : {"remote", "bare", "local"}, path : Paths]

ASSUME AssetAssumption ==
  /\ PathOf \in [Files -> Paths]
  /\ Lang \in [Paths -> {"js", "css", "other"}]
  /\ Refs \in [Files -> SUBSET Ref]
  /\ WalkOrder \in Seq(Files) /\ Files = {WalkOrder[i] : i \in 1..Len(WalkOrder)}
  /\ MapPaths \in Seq(Paths)
  /\ Entries \in [Paths -> SUBSET [key : STRING, ref : Ref]]
  /\ ReqPath \in [Reqs -> Paths]
  /\ Versions # {} /\ MaxEdits \in Nat
  /\ NoJson \subseteq Files \X Versions
  /\ Reqs \cap Reloads = {} /\ New \notin Reqs \cup Reloads
  /\ None \notin Files \cup Reqs \cup Reloads \cup {New}

VARIABLES
  devMode,    \* m.devMode
  disk,       \* the version of each file
  edits,      \* how many changes there were
  up,         \* New has returned, and the server runs
  mu,         \* the call that holds m.mu for writing
  phase,      \* how far its build is
  pos,        \* the next file of the walk, the next import map
  todo,       \* the assets still to compile
  assets,     \* m.assets
  importMap,  \* m.importMap, as a set of entries
  importTag,  \* m.importMapTag, None if it was never rendered
  broken,     \* history: the last build failed
  pc,         \* where each call is
  ver,        \* the version in the query of each request
  found,      \* the asset it looked up
  resp,       \* its response
  cache       \* what browsers keep for good: immutable responses

build   == <<phase, pos, todo>>
content == <<assets, importMap, importTag>>
world   == <<devMode, disk, edits>>
reqs    == <<ver, found, resp, cache>>
vars    == <<devMode, disk, edits, up, mu, phase, pos, todo, assets, importMap,
             importTag, broken, pc, ver, found, resp, cache>>

Calls == Reqs \cup Reloads

\* The nil *Asset, and a map without any.
NoAsset  == [file |-> None]
NoAssets == [p \in Paths |-> NoAsset]

Raw(f) == [ver |-> disk[f], refs |-> {}]

Present == {p \in Paths : assets[p] # NoAsset}

VersionedPath(p) == <<p, assets[p].hash>>

(***************************************************************************)
(* Fragments of the code; a mutant is a changed form in which some         *)
(* property below fails.                                                   *)
(***************************************************************************)

\* m.mu can be had.  Mutant: the reader does not lock.
NoLock(r)  == TRUE
ReadLock(r) == mu = None

\* asset == nil.  Mutant: it is not checked.
NeverMissing(a) == FALSE
Missing(a)      == a = NoAsset

\* What compileAssets makes of an asset whose compiled content differs.
\* Mutants: the tag or the hash stays that of the file.
KeepTag(a, c)  == [a EXCEPT !.compiled = <<c>>, !.hash = c]
KeepHash(a, c) == [a EXCEPT !.compiled = <<c>>]
Recompiled(a, c) == [a EXCEPT !.compiled = <<c>>, !.hash = c, !.tag = c]

\* m.importMapTag = m.renderImportMapTag().  Mutant: only the first time.
RenderOnce == importTag' = IF importTag = None THEN importMap ELSE importTag
RenderMap  == importTag' = importMap

\* The deferred m.mu.Unlock().  Mutant: not on the error returns.
UnlockIfOk(ok) == mu' = IF ok THEN None ELSE mu
Unlock(ok)     == mu' = None

-----------------------------------------------------------------------------
(* build, called by New, Reload and, in development, every request.        *)

BuildBegins(b) ==
  /\ mu' = b
  /\ assets' = NoAssets
  /\ phase' = "walk" /\ pos' = 1 /\ todo' = {}

\* The caller goes on when its build is over.  If New fails there is no server, and
\* who has asked for something is refused.
BuildEnds(ok) ==
  /\ Unlock(ok)
  /\ broken' = ~ok
  /\ up' = IF mu = New THEN ok ELSE up
  /\ pc' = IF mu = New
           THEN [x \in Calls |-> IF ~ok /\ pc[x] = "sent" THEN "lost" ELSE pc[x]]
           ELSE [pc EXCEPT ![mu] = IF ~ok THEN "failed" ELSE IF mu \in Reqs THEN "built" ELSE "done"]
  /\ phase' = "none" /\ pos' = 0 /\ todo' = {}

\* A later file of the same logical path replaces an earlier one.
WalkFile ==
  LET f == WalkOrder[pos] IN
  /\ phase = "walk" /\ pos <= Len(WalkOrder)
  /\ assets' = [assets EXCEPT ![PathOf[f]] =
                  [file |-> f, hash |-> Raw(f), tag |-> Raw(f), compiled |-> <<>>]]
  /\ pos' = pos + 1
  /\ UNCHANGED <<world, up, mu, phase, todo, importMap, importTag, broken, pc, reqs>>

\* A file system reports an error; the assets found so far stay.
WalkFails ==
  /\ phase = "walk" /\ devMode
  /\ BuildEnds(FALSE)
  /\ UNCHANGED <<world, content, reqs>>

ToMaps ==
  /\ phase' = "maps" /\ pos' = 1
  /\ importMap' = IF MapPaths = <<>> THEN importMap ELSE {}

WalkEnds ==
  /\ phase = "walk" /\ pos > Len(WalkOrder)
  /\ IF devMode
     THEN ToMaps /\ todo' = {}
     ELSE /\ phase' = "compile" /\ pos' = 0
          /\ todo' = {p \in Present : Lang[p] \in {"js", "css"}}
          /\ UNCHANGED importMap
  /\ UNCHANGED <<world, up, mu, assets, importTag, broken, pc, reqs>>

\* shouldSkipPath and shouldSkipJSPath.
Skipped(p, r) == r.kind = "remote" \/ (r.kind = "bare" /\ Lang[p] = "js")

\* The references of p that lead to an asset.
Targets(p) == {r.path : r \in {x \in Refs[assets[p].file] : ~Skipped(p, x)}} \cap Present

\* One round of compileAssets, which goes through the map in Go's order: the
\* references become the versioned paths that their assets have at this time.
CompileAsset(p) ==
  /\ phase = "compile" /\ p \in todo
  /\ assets' =
       IF Targets(p) = {} THEN assets
       ELSE [assets EXCEPT ![p] =
               Recompiled(@, [ver  |-> disk[assets[p].file],
                              refs |-> {VersionedPath(q) : q \in Targets(p)}])]
  /\ todo' = todo \ {p}
  /\ UNCHANGED <<world, up, mu, phase, pos, importMap, importTag, broken, pc, reqs>>

CompileEnds ==
  /\ phase = "compile" /\ todo = {}
  /\ ToMaps
  /\ UNCHANGED <<world, up, mu, todo, assets, importTag, broken, pc, reqs>>

\* rewriteImportPath, or the value as it is.
Rewritten(r) ==
  IF r.kind # "remote" /\ r.path \in Present THEN VersionedPath(r.path) ELSE <<r.path, None>>

\* The import map is there and parses.
Parses(p) == p \in Present /\ <<assets[p].file, disk[assets[p].file]>> \notin NoJson

\* Later maps win.
MergeMap ==
  LET new == {[key |-> e.key, to |-> Rewritten(e.ref)] : e \in Entries[MapPaths[pos]]} IN
  /\ phase = "maps" /\ pos <= Len(MapPaths)
  /\ Parses(MapPaths[pos])
  /\ importMap' = new \cup {e \in importMap : \A n \in new : n.key # e.key}
  /\ pos' = pos + 1
  /\ UNCHANGED <<world, up, mu, phase, todo, assets, importTag, broken, pc, reqs>>

\* An import map is missing, no JSON or, in development, unreadable: what was merged
\* stays.
MergeFails ==
  /\ phase = "maps" /\ pos <= Len(MapPaths)
  /\ devMode \/ ~Parses(MapPaths[pos])
  /\ BuildEnds(FALSE)
  /\ UNCHANGED <<world, content, reqs>>

BuildReturns ==
  /\ phase = "maps" /\ pos > Len(MapPaths)
  /\ IF MapPaths = <<>> THEN UNCHANGED importTag ELSE RenderMap
  /\ BuildEnds(TRUE)
  /\ UNCHANGED <<world, assets, importMap, reqs>>

Reload(b) ==
  /\ up /\ mu = None
  /\ b \in Reloads /\ pc[b] = "idle"
  /\ BuildBegins(b)
  /\ pc' = [pc EXCEPT ![b] = "sent"]
  /\ UNCHANGED <<world, up, importMap, importTag, broken, reqs>>

-----------------------------------------------------------------------------
(* ServeHTTP.                                                              *)

\* The URLs of p in the pages and contents that are given out: VersionedPath and
\* the tags, the references in compiled contents, the import map.
HandedOut(p) ==
  {h \in UNION {{assets[q].hash, assets[q].tag} : q \in Present \cap {p}}
           \cup {u[2] : u \in {x \in UNION {assets[q].hash.refs : q \in Present} : x[1] = p}}
           \cup {e.to[2] : e \in {x \in importMap : x.to[1] = p}} : h # None}

\* A browser asks for the plain path, or for one it was given.
Send(r) ==
  /\ up /\ mu = None
  /\ r \in Reqs /\ pc[r] = "idle"
  /\ \E h \in HandedOut(ReqPath[r]) \cup {None} : ver' = [ver EXCEPT ![r] = h]
  /\ pc' = [pc EXCEPT ![r] = "sent"]
  /\ UNCHANGED <<world, up, mu, build, content, broken, found, resp, cache>>

RequestBuilds(r) ==
  /\ up /\ mu = None
  /\ r \in Reqs /\ pc[r] = "sent" /\ devMode
  /\ BuildBegins(r)
  /\ UNCHANGED <<world, up, importMap, importTag, broken, pc, reqs>>

\* Between the build and this another call may have built.
LookUp(r) ==
  LET a == assets[ReqPath[r]] IN
  /\ up /\ ReadLock(r)
  /\ r \in Reqs /\ pc[r] = IF devMode THEN "built" ELSE "sent"
  /\ IF Missing(a)
     THEN pc' = [pc EXCEPT ![r] = "notFound"] /\ UNCHANGED found
     ELSE pc' = [pc EXCEPT ![r] = "found"] /\ found' = [found EXCEPT ![r] = a]
  /\ UNCHANGED <<world, up, mu, build, content, broken, ver, resp, cache>>

\* Under no lock: the compiled content, or the file as it is now.  The version
\* in the query only decides about the headers.
Respond(r) ==
  LET a    == found[r]
      body == IF a.compiled # <<>> THEN a.compiled[1] ELSE Raw(a.file)
  IN
  /\ r \in Reqs /\ pc[r] = "found"
  /\ resp' = [resp EXCEPT ![r] = [body |-> body, hash |-> a.hash]]
  /\ cache' = IF ~devMode /\ ver[r] # None
              THEN cache \cup {[path |-> ReqPath[r], ver |-> ver[r], body |-> body]}
              ELSE cache
  /\ found' = [found EXCEPT ![r] = NoAsset]
  /\ pc' = [pc EXCEPT ![r] = "done"]
  /\ UNCHANGED <<world, up, mu, build, content, broken, ver>>

\* The file cannot be opened or read.
RespondFails(r) ==
  /\ r \in Reqs /\ pc[r] = "found" /\ devMode
  /\ found' = [found EXCEPT ![r] = NoAsset]
  /\ pc' = [pc EXCEPT ![r] = "failed"]
  /\ UNCHANGED <<world, up, mu, build, content, broken, ver, resp, cache>>

-----------------------------------------------------------------------------
(* The files change: under the running manager in development, with a new  *)
(* process in production.                                                  *)

Edit(f, v) ==
  /\ edits < MaxEdits /\ v # disk[f]
  /\ devMode
  /\ disk' = [disk EXCEPT ![f] = v] /\ edits' = edits + 1
  /\ UNCHANGED <<devMode, up, mu, build, content, broken, pc, reqs>>

\* What the old process was doing is lost; a request on its way meets the new one.
Deploy(f, v) ==
  /\ edits < MaxEdits /\ v # disk[f]
  /\ ~devMode
  /\ disk' = [disk EXCEPT ![f] = v] /\ edits' = edits + 1
  /\ BuildBegins(New)
  /\ up' = FALSE
  /\ importMap' = {} /\ importTag' = None
  /\ pc' = [x \in Calls |-> IF pc[x] = "found" \/ x = mu THEN "lost" ELSE pc[x]]
  /\ found' = [r \in Reqs |-> NoAsset]
  /\ UNCHANGED <<devMode, broken, ver, resp, cache>>

Init ==
  /\ devMode \in BOOLEAN
  /\ disk \in [Files -> {CHOOSE v \in Versions : TRUE}]
  /\ edits = 0 /\ up = FALSE
  /\ mu = New
  /\ phase = "walk" /\ pos = 1 /\ todo = {}
  /\ assets = NoAssets
  /\ importMap = {} /\ importTag = None
  /\ broken = FALSE
  /\ pc = [x \in Calls |-> "idle"]
  /\ ver = [r \in Reqs |-> None]
  /\ found = [r \in Reqs |-> NoAsset]
  /\ resp = [r \in Reqs |-> None]
  /\ cache = {}

BuildStep ==
  \/ WalkFile \/ WalkFails \/ WalkEnds
  \/ \E p \in Paths : CompileAsset(p)
  \/ CompileEnds
  \/ MergeMap \/ MergeFails \/ BuildReturns

ServeStep(r) == RequestBuilds(r) \/ LookUp(r) \/ Respond(r) \/ RespondFails(r)

Next ==
  \/ BuildStep
  \/ \E b \in Reloads : Reload(b)
  \/ \E r \in Reqs : Send(r) \/ ServeStep(r)
  \/ \E f \in Files, v \in Versions : Edit(f, v) \/ Deploy(f, v)

Spec == Init /\ [][Next]_vars

\* A build and a request in progress go on; the lock is handed out in turn.
Fairness == WF_vars(BuildStep) /\ \A r \in Reqs : SF_vars(ServeStep(r))

FairSpec == Spec /\ Fairness

-----------------------------------------------------------------------------
IsContent(c) == DOMAIN c = {"ver", "refs"} /\ c.ver \in Versions
IsAsset(a) ==
  /\ DOMAIN a = {"file", "hash", "tag", "compiled"}
  /\ a.file \in Files
  /\ IsContent(a.hash) /\ IsContent(a.tag)
  /\ a.compiled # <<>> => IsContent(a.compiled[1])

TypeOK ==
  /\ devMode \in BOOLEAN /\ up \in BOOLEAN /\ broken \in BOOLEAN
  /\ disk \in [Files -> Versions] /\ edits \in 0..MaxEdits
  /\ mu \in Calls \cup {New, None}
  /\ phase \in {"none", "walk", "compile", "maps"}
  /\ pos \in Nat /\ todo \subseteq Paths
  /\ DOMAIN assets = Paths /\ \A p \in Present : IsAsset(assets[p])
  /\ \A e \in importMap : e.to[1] \in Paths
  /\ pc \in [Calls -> {"idle", "sent", "built", "found", "done", "failed", "notFound", "lost"}]
  /\ \A r \in Reqs : pc[r] = "found" <=> found[r] # NoAsset
  /\ \A e \in cache : e.path \in Paths /\ IsContent(e.body)

Settled == mu = None /\ up

\* What the manager says of an asset agrees with what it serves: the tag in the
\* pages has the current version, which is that of the compiled content.
TagsAreCurrent ==
  Settled => \A p \in Present :
    /\ assets[p].tag = assets[p].hash
    /\ assets[p].compiled # <<>> => assets[p].hash = assets[p].compiled[1]

\* After a build that succeeded the import map and its tag lead to the versions
\* the build ended with.
ImportMapIsCurrent ==
  Settled /\ ~broken /\ MapPaths # <<>> =>
    /\ importTag = importMap
    /\ \A e \in importMap : e.to[1] \in Present /\ e.to[2] # None => e.to = VersionedPath(e.to[1])

\* In production the hash of a response, its ETag if it is not versioned, is that
\* of its body, whatever was built or deployed meanwhile.
ETagNamesBody ==
  ~devMode => \A r \in Reqs : resp[r] # None => resp[r].hash = resp[r].body

\* A file that is there is answered 404 only after a build that failed: no request
\* sees the map while it is being built.
NotFoundIsTrue ==
  [][\A r \in Reqs : pc[r] # "notFound" /\ pc'[r] = "notFound" =>
       broken \/ \A f \in Files : PathOf[f] # ReqPath[r]]_vars

\* Every request is answered, or lost with its process.
Answered == \A r \in Reqs : (pc[r] = "sent") ~> (pc[r] \in {"done", "failed", "notFound", "lost"})

-----------------------------------------------------------------------------
(* What the documentation says and the code does not keep.                 *)

\* Cache busting: a URL that the manager gives out is not in a browser's cache
\* with a content that the manager no longer serves.
CacheBusting ==
  Settled => \A e \in cache : e.path \in Present /\ e.ver \in HandedOut(e.path) =>
    e.body = assets[e.path].hash
=============================================================================
