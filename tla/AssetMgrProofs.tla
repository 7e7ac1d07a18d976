--------------------------- MODULE AssetMgrProofs ---------------------------
(***************************************************************************)
(* What is handed out agrees with what is served, for every set of files,  *)
(* references and import maps, any number of requests and of changes.      *)
(***************************************************************************)
EXTENDS AssetMgr, TLAPS

\* The lock is held exactly while a build is on its way, by a call that waits for it.
LockInv ==
  /\ mu = None <=> phase = "none"
  /\ mu \in Calls => pc[mu] = "sent"
  /\ phase \in {"walk", "maps"} => pos # 0
  /\ todo \subseteq Present /\ (phase # "compile" => todo = {})

\* The maps have their keys.
KeysInv ==
  /\ assets = [p \in Paths |-> assets[p]]
  /\ found = [r \in Reqs |-> found[r]]
  /\ resp = [r \in Reqs |-> resp[r]]

\* The tag, the hash and what is served are of one content.
OneContent(a, dev, files) ==
  /\ a.tag = a.hash
  /\ a.compiled # <<>> => a.hash = a.compiled[1]
  /\ ~dev /\ a.compiled = <<>> => a.hash = [ver |-> files[a.file], refs |-> {}]

Sound(a) == IsAsset(a) /\ OneContent(a, devMode, disk)

AssetInv ==
  /\ \A p \in Present : Sound(assets[p])
  /\ \A r \in Reqs : pc[r] = "found" => Sound(found[r])

\* What was merged leads to the versions of the assets, which are settled by then.
MergedInv ==
  phase = "maps" \/ (phase = "none" /\ ~broken) =>
    \A e \in importMap : e.to[1] \in Present /\ e.to[2] # None => e.to = VersionedPath(e.to[1])

\* importMapTag was rendered from it.
RenderedInv == phase = "none" /\ ~broken => importTag = importMap

MapInv == MapPaths # <<>> => MergedInv /\ RenderedInv

IInv == TypeOK /\ LockInv /\ KeysInv /\ AssetInv /\ MapInv /\ ETagNamesBody

-----------------------------------------------------------------------------
\* A file as it is on disk is a content.
LEMMA RawIsContent ==
  ASSUME TypeOK, NEW f \in Files
  PROVE  IsContent(Raw(f))
  BY DEF TypeOK, IsContent, Raw

\* What the walk makes of a file.
LEMMA WalkedAsset ==
  ASSUME TypeOK, NEW f \in Files, NEW a,
         a = [file |-> f, hash |-> Raw(f), tag |-> Raw(f), compiled |-> <<>>]
  PROVE  Sound(a)
  BY RawIsContent DEF Sound, IsAsset, OneContent, Raw

\* What the compiler makes of an asset.
LEMMA CompiledAsset ==
  ASSUME NEW a, IsAsset(a), NEW c, IsContent(c)
  PROVE  Sound(Recompiled(a, c))
  <1> DEFINE b == Recompiled(a, c)
  <1>1. DOMAIN b = {"file", "hash", "tag", "compiled"} /\ b.file = a.file
    BY DEF Recompiled, IsAsset
  <1>2. b.hash = c /\ b.tag = c /\ b.compiled = <<c>>
    BY DEF Recompiled, IsAsset
  <1>3. <<c>> # <<>> /\ <<c>>[1] = c
    OBVIOUS
  <1> QED BY <1>1, <1>2, <1>3 DEF Sound, IsAsset, OneContent

\* The walk and the merge are at an element of their list.
LEMMA AtElement ==
  ASSUME TypeOK, LockInv
  PROVE  /\ phase = "walk" /\ pos <= Len(WalkOrder) => WalkOrder[pos] \in Files
         /\ phase = "maps" /\ pos <= Len(MapPaths) => MapPaths[pos] \in Paths
  <1>1. phase \in {"walk", "maps"} => pos \in Nat \ {0}
    BY DEF TypeOK, LockInv
  <1>2. ASSUME NEW S, NEW q \in Seq(S), pos \in Nat \ {0}, pos <= Len(q)
        PROVE  q[pos] \in S
    BY <1>2
  <1> QED BY <1>1, <1>2, AssetAssumption

\* The initial states satisfy the invariant.
LEMMA InitInv == Init => IInv
  <1> SUFFICES ASSUME Init PROVE IInv
    OBVIOUS
  <1>1. Present = {}
    BY DEF Init, NoAssets, Present
  <1>2. disk \in [Files -> Versions] /\ edits \in 0..MaxEdits
    <2>1. Versions # {} /\ MaxEdits \in Nat
      BY AssetAssumption
    <2> QED BY <2>1 DEF Init
  <1>3. TypeOK
    BY <1>1, <1>2, AssetAssumption DEF Init, TypeOK, NoAssets, Calls
  <1>4. LockInv /\ KeysInv
    BY AssetAssumption DEF Init, LockInv, KeysInv, NoAssets, Calls
  <1>5. AssetInv /\ MapInv /\ ETagNamesBody
    BY <1>1 DEF Init, AssetInv, MapInv, MergedInv, RenderedInv, ETagNamesBody, Calls
  <1> QED BY <1>3, <1>4, <1>5 DEF IInv

-----------------------------------------------------------------------------
\* Assets stay sound while the files do.
LEMMA StaysSound ==
  ASSUME UNCHANGED <<devMode, disk>>
  PROVE  \A a : Sound(a) => Sound(a)'
  BY DEF Sound

\* A step that leaves files, calls and responses alone, and after which each asset is
\* one that was there or a sound one.
LEMMA ContentStep ==
  ASSUME IInv, NEW a, Sound(a),
         UNCHANGED <<world, up, mu, phase, importMap, importTag, broken, pc, reqs>>,
         phase # "maps", phase # "none", (phase = "walk" /\ pos' \in Nat \ {0}) \/ (phase = "compile" /\ pos' = pos),
         assets' = [p \in Paths |-> assets'[p]],
         \A p \in Present' : assets'[p] = a \/ (p \in Present /\ assets'[p] = assets[p]),
         todo' \subseteq Present', phase # "compile" => todo' = {}
  PROVE  IInv'
  <1> USE DEF world, reqs
  <1>1. \A p \in Present' : Sound(assets'[p])
    BY DEF IInv, AssetInv
  <1>2. TypeOK'
    <2>1. \A p \in Present' : IsAsset(assets'[p])
      BY <1>1 DEF Sound
    <2>2. DOMAIN assets' = Paths /\ todo' \subseteq Paths /\ pos' \in Nat
      BY DEF Present, IInv, TypeOK
    <2> QED BY <2>1, <2>2 DEF IInv, TypeOK
  <1>3. LockInv'
    BY DEF IInv, LockInv
  <1>4. AssetInv'
    BY <1>1 DEF IInv, AssetInv, Sound
  <1>5. KeysInv' /\ MapInv' /\ ETagNamesBody'
    BY DEF IInv, KeysInv, MapInv, MergedInv, RenderedInv, ETagNamesBody
  <1> QED BY <1>2, <1>3, <1>4, <1>5 DEF IInv

-----------------------------------------------------------------------------
(* The build.                                                              *)

\* A file that is walked replaces what was there of its path.
LEMMA WalkFileStep ==
  ASSUME IInv, WalkFile
  PROVE  IInv'
  <1> DEFINE f == WalkOrder[pos]
             a == [file |-> f, hash |-> Raw(f), tag |-> Raw(f), compiled |-> <<>>]
  <1>1. f \in Files /\ PathOf[f] \in Paths
    BY AtElement, AssetAssumption DEF IInv, WalkFile
  <1>2. Sound(a)
    BY <1>1, WalkedAsset DEF IInv
  <1>3. assets' = [assets EXCEPT ![PathOf[f]] = a] /\ pos' = pos + 1 /\ phase = "walk"
    BY DEF WalkFile
  <1>4. assets' = [q \in Paths |-> assets'[q]]
        /\ \A q \in Paths : assets'[q] = IF q = PathOf[f] THEN a ELSE assets[q]
    BY <1>1, <1>3 DEF IInv, KeysInv
  <1>5. \A q \in Present' : assets'[q] = a \/ (q \in Present /\ assets'[q] = assets[q])
    BY <1>4 DEF Present
  <1>6. todo' = {} /\ todo' \subseteq Present' /\ pos' \in Nat \ {0} /\ phase = "walk"
    BY <1>3 DEF WalkFile, IInv, LockInv, TypeOK
  <1>7. UNCHANGED <<world, up, mu, phase, importMap, importTag, broken, pc, reqs>>
    BY DEF WalkFile
  <1> HIDE DEF f, a
  <1> QED BY <1>2, <1>4, <1>5, <1>6, <1>7, ContentStep

\* A compiled asset has another content, and its tag and hash with it.
LEMMA CompileStep ==
  ASSUME IInv, NEW p \in Paths, CompileAsset(p)
  PROVE  IInv'
  <1> DEFINE c == [ver  |-> disk[assets[p].file], refs |-> {VersionedPath(q) : q \in Targets(p)}]
             a == Recompiled(assets[p], c)
  <1>1. phase = "compile" /\ p \in Present /\ pos' = pos
    BY DEF CompileAsset, IInv, LockInv
  <1>2. UNCHANGED <<world, up, mu, phase, importMap, importTag, broken, pc, reqs>>
    BY DEF CompileAsset
  <1>3. Sound(a) /\ Sound(assets[p])
    <2>1. Sound(assets[p])
      BY <1>1 DEF IInv, AssetInv
    <2>2. IsContent(c)
      BY <2>1 DEF Sound, IsAsset, IsContent, IInv, TypeOK
    <2> QED BY <2>1, <2>2, CompiledAsset DEF Sound
  <1>4. assets' = [q \in Paths |-> assets'[q]]
        /\ \A q \in Paths : assets'[q] = assets[q] \/ (q = p /\ assets'[q] = a)
    BY DEF CompileAsset, IInv, KeysInv
  <1>5. \A q \in Present' : assets'[q] = a \/ (q \in Present /\ assets'[q] = assets[q])
    BY <1>4 DEF Present
  <1>6. todo' \subseteq Present'
    <2>1. todo' = todo \ {p} /\ todo \subseteq Present
      BY DEF CompileAsset, IInv, LockInv
    <2> QED BY <2>1, <1>4 DEF Present
  <1> HIDE DEF a
  <1> QED BY <1>1, <1>2, <1>3, <1>4, <1>5, <1>6, ContentStep

\* A step that leaves assets and files alone, and gives no call another asset.
LEMMA AssetsKept ==
  ASSUME IInv, UNCHANGED <<devMode, disk, assets>>,
         \A r \in Reqs : pc'[r] = "found" => pc[r] = "found" /\ found'[r] = found[r]
  PROVE  AssetInv'
  <1>1. Present' = Present
    BY DEF Present
  <1> QED BY <1>1 DEF IInv, AssetInv, Sound

\* The walk or the compilation is over.
LEMMA PhaseStep ==
  ASSUME IInv, WalkEnds \/ CompileEnds
  PROVE  IInv'
  <1>1. UNCHANGED <<world, up, mu, assets, importTag, broken, pc, reqs>>
    BY DEF WalkEnds, CompileEnds
  <1>2. /\ phase \in {"walk", "compile"}
        /\ phase' \in {"maps", "compile"}
        /\ pos' \in Nat /\ (phase' = "maps" => pos' = 1)
        /\ todo' \subseteq Present /\ (phase' # "compile" => todo' = {})
        /\ importMap' = importMap \/ importMap' = {}
        /\ MapPaths # <<>> /\ phase' = "maps" => importMap' = {}
    BY DEF WalkEnds, CompileEnds, ToMaps
  <1>3. Present' = Present
    BY <1>1 DEF Present
  <1>4. TypeOK' /\ LockInv' /\ KeysInv'
    <2>1. TypeOK'
      <3>1. todo' \subseteq Paths /\ \A e \in importMap' : e.to[1] \in Paths
        BY <1>2 DEF IInv, TypeOK, Present
      <3> QED BY <1>1, <1>2, <1>3, <3>1 DEF IInv, TypeOK, world, reqs
    <2>2. LockInv'
      BY <1>1, <1>2, <1>3 DEF IInv, LockInv
    <2>3. KeysInv'
      BY <1>1 DEF IInv, KeysInv, reqs
    <2> QED BY <2>1, <2>2, <2>3
  <1>5. AssetInv' /\ ETagNamesBody'
    BY <1>1, AssetsKept DEF IInv, ETagNamesBody, world, reqs
  <1>6. MapInv'
    BY <1>2 DEF MapInv, MergedInv, RenderedInv
  <1> QED BY <1>4, <1>5, <1>6 DEF IInv

\* The entries of one more import map lead to the present versions.
LEMMA MergeStep ==
  ASSUME IInv, MergeMap
  PROVE  IInv'
  <1> DEFINE new == {[key |-> e.key, to |-> Rewritten(e.ref)] : e \in Entries[MapPaths[pos]]}
  <1>1. UNCHANGED <<world, up, mu, phase, todo, assets, importTag, broken, pc, reqs>>
        /\ phase = "maps" /\ pos' = pos + 1 /\ pos <= Len(MapPaths)
        /\ importMap' \subseteq new \cup importMap
    BY DEF MergeMap
  <1>2. Present' = Present /\ \A p \in Paths : VersionedPath(p)' = VersionedPath(p)
    BY <1>1 DEF Present, VersionedPath
  <1>3. \A e \in new : /\ e.to[1] \in Paths
                       /\ e.to[1] \in Present /\ e.to[2] # None => e.to = VersionedPath(e.to[1])
    <2> SUFFICES ASSUME NEW x \in Entries[MapPaths[pos]]
                 PROVE  LET t == Rewritten(x.ref) IN
                        /\ t[1] \in Paths
                        /\ t[1] \in Present /\ t[2] # None => t = VersionedPath(t[1])
      OBVIOUS
    <2>1. x.ref.path \in Paths
      BY <1>1, AtElement, AssetAssumption DEF IInv, Ref
    <2> QED BY <2>1 DEF Rewritten, VersionedPath
  <1> HIDE DEF new
  <1>4. TypeOK' /\ LockInv' /\ KeysInv'
    <2>1. TypeOK'
      <3>1. \A e \in importMap' : e.to[1] \in Paths
        BY <1>1, <1>3 DEF IInv, TypeOK
      <3> QED BY <1>1, <1>2, <3>1 DEF IInv, TypeOK, world, reqs
    <2>2. LockInv' /\ KeysInv'
      BY <1>1, <1>2 DEF IInv, TypeOK, LockInv, KeysInv, world, reqs
    <2> QED BY <2>1, <2>2
  <1>5. AssetInv' /\ ETagNamesBody'
    BY <1>1, AssetsKept DEF IInv, ETagNamesBody, world, reqs
  <1>6. MapInv'
    BY <1>1, <1>2, <1>3 DEF IInv, TypeOK, MapInv, MergedInv, RenderedInv
  <1> QED BY <1>4, <1>5, <1>6 DEF IInv

\* A build is over, with or without an error.
LEMMA EndStep ==
  ASSUME IInv, WalkFails \/ MergeFails \/ BuildReturns
  PROVE  IInv'
  <1>1. PICK ok \in BOOLEAN : BuildEnds(ok)
    BY DEF WalkFails, MergeFails, BuildReturns
  <1>2. UNCHANGED <<world, assets, importMap, reqs>>
    BY DEF WalkFails, MergeFails, BuildReturns, content
  <1>3. /\ mu' = None /\ phase' = "none" /\ pos' = 0 /\ todo' = {} /\ broken' = ~ok
        /\ up' \in BOOLEAN /\ broken' \in BOOLEAN /\ phase # "none"
    BY <1>1 DEF BuildEnds, Unlock, IInv, TypeOK, WalkFails, MergeFails, BuildReturns
  <1>4. /\ ok => phase = "maps"
        /\ ok /\ MapPaths # <<>> => importTag' = importMap
    BY <1>1 DEF WalkFails, MergeFails, BuildReturns, BuildEnds, RenderMap
  <1>5. /\ pc' \in [Calls -> {"idle", "sent", "built", "found", "done", "failed", "notFound", "lost"}]
        /\ \A r \in Reqs : pc'[r] = "found" <=> pc[r] = "found"
    BY <1>1 DEF BuildEnds, IInv, TypeOK, LockInv, Calls
  <1>6. Present' = Present /\ \A p \in Paths : VersionedPath(p)' = VersionedPath(p)
    BY <1>2 DEF Present, VersionedPath
  <1>7. TypeOK' /\ LockInv' /\ KeysInv'
    <2>1. TypeOK'
      BY <1>2, <1>3, <1>5, <1>6 DEF IInv, TypeOK, world, reqs
    <2>2. LockInv'
      BY <1>3, AssetAssumption DEF LockInv, Calls
    <2>3. KeysInv'
      BY <1>2 DEF IInv, KeysInv, reqs
    <2> QED BY <2>1, <2>2, <2>3
  <1>8. AssetInv' /\ ETagNamesBody'
    BY <1>2, <1>5, AssetsKept DEF IInv, ETagNamesBody, world, reqs
  <1>9. MapInv'
    BY <1>2, <1>3, <1>4, <1>6 DEF IInv, TypeOK, MapInv, MergedInv, RenderedInv
  <1> QED BY <1>7, <1>8, <1>9 DEF IInv

\* A build begins: a Reload, or a request in development.
LEMMA BeginStep ==
  ASSUME IInv, NEW b \in Calls, Reload(b) \/ RequestBuilds(b)
  PROVE  IInv'
  <1>1. BuildBegins(b) /\ UNCHANGED <<world, up, importMap, importTag, broken, reqs>>
    BY DEF Reload, RequestBuilds
  <1>2. /\ pc' = [pc EXCEPT ![b] = "sent"] /\ pc[b] # "found"
    BY DEF Reload, RequestBuilds, IInv, TypeOK
  <1>3. Present' = {}
    BY <1>1 DEF BuildBegins, NoAssets, Present
  <1>4. TypeOK' /\ LockInv' /\ KeysInv'
    <2>1. mu' = b /\ phase' = "walk" /\ pos' = 1 /\ todo' = {} /\ assets' = NoAssets
      BY <1>1 DEF BuildBegins
    <2>2. TypeOK'
      BY <1>1, <1>2, <1>3, <2>1 DEF IInv, TypeOK, Calls, world, reqs, NoAssets
    <2>3. LockInv'
      BY <1>2, <2>1, AssetAssumption DEF IInv, TypeOK, LockInv, Calls
    <2>4. KeysInv'
      BY <1>1, <2>1 DEF IInv, KeysInv, reqs, NoAssets
    <2> QED BY <2>2, <2>3, <2>4
  <1>5. AssetInv'
    BY <1>1, <1>2, <1>3 DEF IInv, TypeOK, AssetInv, Sound, Calls, world, reqs
  <1>6. MapInv' /\ ETagNamesBody'
    BY <1>1 DEF IInv, MapInv, MergedInv, RenderedInv, ETagNamesBody, BuildBegins, world, reqs
  <1> QED BY <1>4, <1>5, <1>6 DEF IInv

-----------------------------------------------------------------------------
(* The requests, and the files.                                            *)

\* A request is sent, finds its asset or none, is answered or fails.
LEMMA ServeStepKeeps ==
  ASSUME IInv, NEW r \in Reqs, Send(r) \/ LookUp(r) \/ Respond(r) \/ RespondFails(r)
  PROVE  IInv'
  <1>1. UNCHANGED <<world, up, mu, build, content, broken>>
    BY DEF Send, LookUp, Respond, RespondFails
  <1>2. /\ pc' = [pc EXCEPT ![r] = pc'[r]] /\ mu # r
        /\ pc'[r] \in {"sent", "found", "notFound", "done", "failed"}
        /\ found' = [found EXCEPT ![r] = found'[r]]
        /\ pc'[r] = "found" <=> found'[r] # NoAsset
        /\ pc'[r] = "found" => ReqPath[r] \in Present /\ found'[r] = assets[ReqPath[r]]
    <2>1. r \in Calls /\ pc \in [Calls -> {"idle", "sent", "built", "found", "done", "failed", "notFound", "lost"}]
          /\ found = [q \in Reqs |-> found[q]] /\ (pc[r] = "found" <=> found[r] # NoAsset)
          /\ ReqPath[r] \in Paths
      BY AssetAssumption DEF Calls, IInv, TypeOK, KeysInv
    <2>2. CASE Send(r)
      BY <2>1, <2>2, AssetAssumption DEF Send
    <2>3. CASE LookUp(r)
      BY <2>1, <2>3, AssetAssumption DEF LookUp, ReadLock, Missing, Present
    <2>4. CASE Respond(r)
      BY <2>1, <2>4 DEF Respond, IInv, LockInv
    <2>5. CASE RespondFails(r)
      BY <2>1, <2>5 DEF RespondFails, IInv, LockInv
    <2> QED BY <2>2, <2>3, <2>4, <2>5
  <1>3. \A q \in Reqs : q # r => pc'[q] = pc[q] /\ found'[q] = found[q]
    BY <1>2 DEF Calls, IInv, TypeOK, KeysInv
  <1>4. Present' = Present /\ \A p \in Paths : VersionedPath(p)' = VersionedPath(p)
    BY <1>1 DEF Present, VersionedPath, content
  <1>5. AssetInv'
    <2>1. \A p \in Present' : Sound(assets[p])'
      BY <1>1, <1>4, StaysSound DEF IInv, AssetInv, world, content, Sound
    <2>2. ASSUME NEW q \in Reqs, pc'[q] = "found"
          PROVE  Sound(found[q])'
      <3>1. Sound(found'[q])
        BY <1>2, <1>3, <2>2 DEF IInv, AssetInv
      <3> QED BY <1>1, <3>1 DEF Sound, world
    <2> QED BY <2>1, <2>2 DEF AssetInv
  <1>6. /\ resp' = [q \in Reqs |-> resp'[q]]
        /\ \A q \in Reqs : resp'[q] = resp[q] \/ (~devMode => resp'[q].hash = resp'[q].body)
        /\ \A e \in cache' : e \in cache \/ (e.path \in Paths /\ IsContent(e.body))
    <2>1. CASE ~Respond(r)
      BY <2>1 DEF Send, LookUp, RespondFails, IInv, KeysInv
    <2>2. CASE Respond(r)
      <3> DEFINE a == found[r]
                 body == IF a.compiled # <<>> THEN a.compiled[1] ELSE Raw(a.file)
      <3>1. Sound(a)
        BY <2>2 DEF Respond, IInv, AssetInv
      <3>2. IsContent(body) /\ (~devMode => a.hash = body)
        <4>1. IsContent(Raw(a.file))
          BY <3>1, RawIsContent DEF IInv, Sound, IsAsset
        <4> QED BY <3>1, <4>1 DEF Sound, IsAsset, OneContent, Raw
      <3>3. resp' = [resp EXCEPT ![r] = [body |-> body, hash |-> a.hash]]
            /\ cache' \subseteq cache \cup {[path |-> ReqPath[r], ver |-> ver[r], body |-> body]}
        BY <2>2 DEF Respond
      <3> HIDE DEF a, body
      <3>4. ReqPath[r] \in Paths
        BY AssetAssumption
      <3> QED BY <3>2, <3>3, <3>4 DEF IInv, KeysInv
    <2> QED BY <2>1, <2>2
  <1>7. TypeOK'
    <2>1. pc' \in [Calls -> {"idle", "sent", "built", "found", "done", "failed", "notFound", "lost"}]
      BY <1>2 DEF IInv, TypeOK
    <2>2. \A q \in Reqs : pc'[q] = "found" <=> found'[q] # NoAsset
      BY <1>2, <1>3 DEF IInv, TypeOK
    <2>3. \A e \in cache' : e.path \in Paths /\ IsContent(e.body)
      BY <1>6 DEF IInv, TypeOK
    <2> QED BY <1>1, <1>4, <2>1, <2>2, <2>3 DEF IInv, TypeOK, world, build, content
  <1>8. LockInv'
    BY <1>1, <1>2, <1>4 DEF IInv, TypeOK, LockInv, build
  <1>9. KeysInv'
    BY <1>1, <1>2, <1>6 DEF IInv, KeysInv, content
  <1>10. MapInv'
    BY <1>1, <1>4 DEF IInv, TypeOK, MapInv, MergedInv, RenderedInv, build, content
  <1>11. ETagNamesBody'
    BY <1>1, <1>6 DEF IInv, ETagNamesBody, world
  <1> QED BY <1>5, <1>7, <1>8, <1>9, <1>10, <1>11 DEF IInv

\* In development files change, and nothing is said of what was read before.
LEMMA EditStep ==
  ASSUME IInv, NEW f \in Files, NEW v \in Versions, Edit(f, v)
  PROVE  IInv'
  <1>1. UNCHANGED <<devMode, up, mu, build, content, broken, pc, reqs>> /\ devMode
    BY DEF Edit
  <1>2. disk' \in [Files -> Versions] /\ edits' \in 0..MaxEdits
    BY AssetAssumption DEF Edit, IInv, TypeOK
  <1>3. Present' = Present /\ \A p \in Paths : VersionedPath(p)' = VersionedPath(p)
    BY <1>1 DEF Present, VersionedPath, content
  <1>4. AssetInv'
    <2>1. \A a : Sound(a) => Sound(a)'
      BY <1>1 DEF Sound, OneContent
    <2> QED BY <1>1, <1>3, <2>1 DEF IInv, AssetInv, Sound, OneContent, content, reqs
  <1>5. TypeOK' /\ LockInv' /\ KeysInv'
    <2>1. TypeOK'
      BY <1>1, <1>2, <1>3 DEF IInv, TypeOK, build, content, reqs
    <2> QED BY <1>1, <1>3, <2>1 DEF IInv, LockInv, KeysInv, build, content, reqs
  <1>6. MapInv' /\ ETagNamesBody'
    BY <1>1, <1>3 DEF IInv, TypeOK, MapInv, MergedInv, RenderedInv, ETagNamesBody, build, content, reqs
  <1> QED BY <1>4, <1>5, <1>6 DEF IInv

\* A new process starts with nothing; what was answered stays answered.
LEMMA DeployStep ==
  ASSUME IInv, NEW f \in Files, NEW v \in Versions, Deploy(f, v)
  PROVE  IInv'
  <1>1. UNCHANGED <<devMode, broken, ver, resp, cache>> /\ BuildBegins(New)
        /\ up' = FALSE /\ importMap' = {} /\ found' = [r \in Reqs |-> NoAsset]
        /\ pc' = [x \in Calls |-> IF pc[x] = "found" \/ x = mu THEN "lost" ELSE pc[x]]
    BY DEF Deploy
  <1>2. disk' \in [Files -> Versions] /\ edits' \in 0..MaxEdits
    BY AssetAssumption DEF Deploy, IInv, TypeOK
  <1>3. mu' = New /\ phase' = "walk" /\ pos' = 1 /\ todo' = {} /\ assets' = NoAssets /\ Present' = {}
    BY <1>1 DEF BuildBegins, NoAssets, Present
  <1>4. pc' \in [Calls -> {"idle", "sent", "built", "found", "done", "failed", "notFound", "lost"}]
        /\ \A r \in Reqs : pc'[r] # "found"
    BY <1>1 DEF IInv, TypeOK, Calls
  <1>5. TypeOK'
    BY <1>1, <1>2, <1>3, <1>4 DEF IInv, TypeOK, NoAssets
  <1>6. LockInv' /\ KeysInv'
    BY <1>1, <1>3, AssetAssumption DEF IInv, LockInv, KeysInv, Calls, NoAssets
  <1>7. AssetInv' /\ MapInv' /\ ETagNamesBody'
    BY <1>1, <1>3, <1>4 DEF IInv, AssetInv, MapInv, MergedInv, RenderedInv, ETagNamesBody
  <1> QED BY <1>5, <1>6, <1>7 DEF IInv

\* A step in which nothing happens.
LEMMA StutterStep ==
  ASSUME IInv, UNCHANGED vars
  PROVE  IInv'
  BY DEF vars, IInv, TypeOK, LockInv, KeysInv, AssetInv, Sound, MapInv, MergedInv, RenderedInv,
         ETagNamesBody, Present, VersionedPath

-----------------------------------------------------------------------------
\* IInv is inductive.
THEOREM Inductive == Spec => []IInv
  <1>1. IInv /\ [Next]_vars => IInv'
    <2> SUFFICES ASSUME IInv, [Next]_vars PROVE IInv'
      OBVIOUS
    <2>1. CASE UNCHANGED vars
      BY <2>1, StutterStep
    <2>2. CASE BuildStep
      BY <2>2, WalkFileStep, EndStep, PhaseStep, CompileStep, MergeStep DEF BuildStep
    <2>3. ASSUME NEW b \in Reloads, Reload(b) PROVE IInv'
      BY <2>3, BeginStep DEF Calls
    <2>4. ASSUME NEW r \in Reqs, Send(r) \/ ServeStep(r) PROVE IInv'
      BY <2>4, BeginStep, ServeStepKeeps DEF ServeStep, Calls
    <2>5. ASSUME NEW f \in Files, NEW v \in Versions, Edit(f, v) \/ Deploy(f, v) PROVE IInv'
      BY <2>5, EditStep, DeployStep
    <2> QED BY <2>1, <2>2, <2>3, <2>4, <2>5 DEF Next
  <1> QED BY <1>1, InitInv, PTL DEF Spec

\* The types of the manager, its requests and the browser's cache.
THEOREM TypeCorrect == Spec => []TypeOK
  <1>1. IInv => TypeOK
    BY DEF IInv
  <1> QED BY <1>1, Inductive, PTL

\* The tag of an asset and its compiled content are of one version, in whatever order
\* files were compiled and whichever build failed.
THEOREM TagsCurrent == Spec => []TagsAreCurrent
  <1>1. IInv => TagsAreCurrent
    BY DEF IInv, AssetInv, Sound, OneContent, TagsAreCurrent
  <1> QED BY <1>1, Inductive, PTL

\* After a build that succeeded the import map leads to the versions that are served.
THEOREM ImportMapCurrent == Spec => []ImportMapIsCurrent
  <1>1. IInv => ImportMapIsCurrent
    BY DEF IInv, LockInv, MapInv, MergedInv, RenderedInv, ImportMapIsCurrent, Settled
  <1> QED BY <1>1, Inductive, PTL

\* In production a response has the hash of its body, whatever is built or deployed
\* between the look-up and the response.
THEOREM ResponseIsNamed == Spec => []ETagNamesBody
  <1>1. IInv => ETagNamesBody
    BY DEF IInv
  <1> QED BY <1>1, Inductive, PTL

-----------------------------------------------------------------------------
(* No request sees a map from which files are missing.                     *)

\* The files that were walked have assets: all of them, once the walk is over.
WalkedInv ==
  /\ phase = "walk" =>
       \A i \in 1..Len(WalkOrder) : i < pos => PathOf[WalkOrder[i]] \in Present
  /\ phase \in {"compile", "maps"} \/ (phase = "none" /\ ~broken) =>
       \A f \in Files : PathOf[f] \in Present

\* A file that is walked has an asset then, and those before it keep theirs.
LEMMA WalkFileAdds ==
  ASSUME IInv, WalkedInv, WalkFile
  PROVE  WalkedInv'
  <1> DEFINE f == WalkOrder[pos]
             a == [file |-> f, hash |-> Raw(f), tag |-> Raw(f), compiled |-> <<>>]
  <1>1. f \in Files /\ PathOf[f] \in Paths
    BY AtElement, AssetAssumption DEF IInv, WalkFile
  <1>2. a # NoAsset
    <2>1. a.file # NoAsset.file
      BY <1>1, AssetAssumption DEF NoAsset
    <2> QED BY <2>1
  <1>3. assets' = [assets EXCEPT ![PathOf[f]] = a] /\ pos' = pos + 1 /\ phase = "walk" /\ phase' = phase
    BY DEF WalkFile
  <1> HIDE DEF a
  <1>4. Present' = Present \cup {PathOf[f]}
    BY <1>1, <1>2, <1>3 DEF Present, IInv, KeysInv
  <1>5. ASSUME NEW i \in 1..Len(WalkOrder), i < pos'
        PROVE  PathOf[WalkOrder[i]] \in Present'
    <2>1. i < pos \/ i = pos
      <3>1. i \in Nat /\ pos \in Nat
        BY DEF IInv, TypeOK
      <3> QED BY <3>1, <1>3, <1>5
    <2> QED BY <2>1, <1>3, <1>4 DEF WalkedInv
  <1> QED BY <1>3, <1>5 DEF WalkedInv

\* A compiled asset is one.
LEMMA CompileKeepsAssets ==
  ASSUME IInv, WalkedInv, NEW p \in Paths, CompileAsset(p)
  PROVE  WalkedInv'
  <1> DEFINE c == [ver  |-> disk[assets[p].file], refs |-> {VersionedPath(q) : q \in Targets(p)}]
             a == Recompiled(assets[p], c)
  <1>1. phase = "compile" /\ phase' = phase /\ p \in Present
    BY DEF CompileAsset, IInv, LockInv
  <1>2. a # NoAsset
    <2>1. IsAsset(assets[p])
      BY <1>1 DEF IInv, TypeOK
    <2>2. a.file = assets[p].file
      BY <2>1 DEF Recompiled, IsAsset
    <2>3. a.file # NoAsset.file
      BY <2>1, <2>2, AssetAssumption DEF IsAsset, NoAsset
    <2> QED BY <2>3
  <1>3. \A q \in Paths : assets'[q] = assets[q] \/ assets'[q] = a
    BY DEF CompileAsset, IInv, KeysInv
  <1> HIDE DEF a
  <1>4. Present \subseteq Present'
    BY <1>2, <1>3 DEF Present
  <1> QED BY <1>1, <1>4 DEF WalkedInv

\* The other steps of a build, and those of the requests.
LEMMA OthersKeepAssets ==
  ASSUME IInv, WalkedInv,
         \/ WalkFails \/ WalkEnds \/ CompileEnds \/ MergeMap \/ MergeFails \/ BuildReturns
         \/ \E b \in Reloads : Reload(b)
         \/ \E r \in Reqs : Send(r) \/ ServeStep(r)
         \/ \E f \in Files, v \in Versions : Edit(f, v) \/ Deploy(f, v)
         \/ UNCHANGED vars
  PROVE  WalkedInv'
  <1>1. CASE WalkEnds
    <2>1. assets' = assets /\ phase' \in {"maps", "compile"} /\ phase = "walk" /\ pos > Len(WalkOrder)
      BY <1>1 DEF WalkEnds, ToMaps
    <2>2. Present' = Present
      BY <2>1 DEF Present
    <2>3. \A i \in 1..Len(WalkOrder) : i < pos
      <3>1. pos \in Nat /\ Len(WalkOrder) \in Nat
        BY AssetAssumption DEF IInv, TypeOK
      <3> QED BY <2>1, <3>1
    <2>4. Files = {WalkOrder[i] : i \in 1..Len(WalkOrder)}
      BY AssetAssumption
    <2>5. \A f \in Files : PathOf[f] \in Present
      BY <2>1, <2>3, <2>4 DEF WalkedInv
    <2> QED BY <2>1, <2>2, <2>5 DEF WalkedInv
  <1>2. CASE (phase' = "none" /\ broken') \/ (phase' = "walk" /\ pos' = 1)
    BY <1>2 DEF WalkedInv
  <1>3. CASE assets' = assets /\ phase' \in {"maps", "none"} /\ phase \in {"compile", "maps"}
    <2>1. Present' = Present
      BY <1>3 DEF Present
    <2> QED BY <1>3, <2>1 DEF WalkedInv
  <1>4. CASE UNCHANGED <<assets, phase, broken, pos>>
    <2>1. Present' = Present
      BY <1>4 DEF Present
    <2> QED BY <1>4, <2>1 DEF WalkedInv
  <1>5. CASE WalkFails \/ MergeFails
    BY <1>2, <1>5 DEF WalkFails, MergeFails, BuildEnds
  <1>6. CASE CompileEnds \/ MergeMap \/ BuildReturns
    BY <1>3, <1>6 DEF CompileEnds, ToMaps, MergeMap, BuildReturns, BuildEnds
  <1>7. CASE \E b \in Reloads : Reload(b)
    BY <1>2, <1>7 DEF Reload, BuildBegins
  <1>8. CASE \E r \in Reqs : Send(r) \/ ServeStep(r)
    <2> PICK r \in Reqs : Send(r) \/ ServeStep(r)
      BY <1>8
    <2>1. CASE RequestBuilds(r)
      BY <1>2, <2>1 DEF RequestBuilds, BuildBegins
    <2>2. CASE Send(r) \/ LookUp(r) \/ Respond(r) \/ RespondFails(r)
      BY <1>4, <2>2 DEF Send, LookUp, Respond, RespondFails, build, content
    <2> QED BY <2>1, <2>2 DEF ServeStep
  <1>9. CASE \E f \in Files, v \in Versions : Edit(f, v) \/ Deploy(f, v)
    BY <1>2, <1>4, <1>9 DEF Edit, Deploy, BuildBegins, build, content
  <1>10. CASE UNCHANGED vars
    BY <1>4, <1>10 DEF vars
  <1> QED BY <1>1, <1>5, <1>6, <1>7, <1>8, <1>9, <1>10

\* Once the walk is over every file has an asset, until the next build.
THEOREM WalkComplete == Spec => []WalkedInv
  <1>1. Init => WalkedInv
    BY DEF Init, WalkedInv
  <1>2. IInv /\ WalkedInv /\ [Next]_vars => WalkedInv'
    BY WalkFileAdds, CompileKeepsAssets, OthersKeepAssets DEF Next, BuildStep
  <1> QED BY <1>1, <1>2, Inductive, PTL DEF Spec

\* A file that is there is answered 404 only after a build that failed, whoever builds
\* between a request's own build and its look-up.
THEOREM NotFoundTrue == Spec => NotFoundIsTrue
  <1> DEFINE True404 == \A r \in Reqs : pc[r] # "notFound" /\ pc'[r] = "notFound" =>
                          broken \/ \A f \in Files : PathOf[f] # ReqPath[r]
  <1>1. IInv /\ WalkedInv /\ [Next]_vars => True404
    <2> SUFFICES ASSUME IInv, WalkedInv, [Next]_vars,
                        NEW r \in Reqs, pc[r] # "notFound", pc'[r] = "notFound", ~broken,
                        NEW f \in Files
                 PROVE  PathOf[f] # ReqPath[r]
      OBVIOUS
    <2>1. LookUp(r) /\ Missing(assets[ReqPath[r]])
      <3>1. r \in Calls /\ pc = [x \in Calls |-> pc[x]]
        BY DEF Calls, IInv, TypeOK
      <3>2. ASSUME NEW x, NEW e, pc' = [pc EXCEPT ![x] = e], e # "notFound" PROVE FALSE
        BY <3>1, <3>2
      <3>3. pc' # pc
        OBVIOUS
      <3>4. ~BuildStep
        <4>1. ASSUME NEW ok, BuildEnds(ok) PROVE FALSE
          <5>1. CASE mu = New
            BY <3>1, <4>1, <5>1 DEF BuildEnds
          <5>2. CASE mu # New
            BY <3>2, <4>1, <5>2 DEF BuildEnds
          <5> QED BY <5>1, <5>2
        <4> QED BY <3>3, <4>1 DEF BuildStep, WalkFile, WalkFails, WalkEnds, CompileAsset,
                                  CompileEnds, MergeMap, MergeFails, BuildReturns
      <3>5. ~\E b \in Reloads : Reload(b)
        BY <3>2 DEF Reload
      <3>6. ~\E g \in Files, v \in Versions : Edit(g, v) \/ Deploy(g, v)
        BY <3>1, <3>3 DEF Edit, Deploy
      <3>7. PICK q \in Reqs : Send(q) \/ ServeStep(q)
        BY <3>3, <3>4, <3>5, <3>6 DEF Next, vars
      <3>8. LookUp(q) /\ Missing(assets[ReqPath[q]])
        BY <3>2, <3>7 DEF ServeStep, Send, RequestBuilds, LookUp, Respond, RespondFails
      <3>9. q = r
        BY <3>1, <3>8 DEF LookUp
      <3> QED BY <3>8, <3>9
    <2>2. phase = "none"
      BY <2>1 DEF LookUp, ReadLock, IInv, LockInv
    <2> QED BY <2>1, <2>2 DEF WalkedInv, Missing, Present
  <1> QED BY <1>1, Inductive, WalkComplete, PTL DEF Spec, NotFoundIsTrue
=============================================================================
