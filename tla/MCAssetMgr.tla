----------------------------- MODULE MCAssetMgr -----------------------------
(***************************************************************************)
(* An instance of AssetMgr for TLC.  app imports utils, which imports lib; *)
(* vendor replaces lib, from a file system given later; page is a style    *)
(* sheet with references that are left alone, but for a bare one.  imap is *)
(* an import map.                                                          *)
(***************************************************************************)
EXTENDS AssetMgr

CONSTANTS app, utils, lib, vendor, page, imap, appJs, utilsJs, libJs, pageCss, imapJson, goneJs, r1, r2, b1

MCPathOf == [f \in Files |->
  CASE f = app -> appJs [] f = utils -> utilsJs [] f \in {lib, vendor} -> libJs
    [] f = page -> pageCss [] f = imap -> imapJson]

MCLang == [p \in Paths |->
  CASE p \in {appJs, utilsJs, libJs, goneJs} -> "js" [] p = pageCss -> "css" [] OTHER -> "other"]

To(k, p) == [kind |-> k, path |-> p]

MCRefs == [f \in Files |->
  CASE f = app -> {To("local", utilsJs), To("bare", libJs)}
    [] f = utils -> {To("local", libJs), To("local", goneJs)}
    [] f = page -> {To("remote", appJs), To("bare", libJs)}
    [] OTHER -> {}]

MCEntries == [p \in Paths |->
  IF p = imapJson THEN {[key |-> "app", ref |-> To("local", appJs)],
                        [key |-> "cdn", ref |-> To("remote", libJs)]} ELSE {}]

MCWalkOrder == SelectSeq(<<app, imap, lib, page, utils, vendor>>, LAMBDA f : f \in Files)
MCReqPath   == [r \in Reqs |-> IF r = r1 THEN utilsJs ELSE goneJs]
MCMapPaths  == SelectSeq(<<imapJson>>, LAMBDA p : p \in Paths)

\* The import map's second version does not parse.
MCNoJson == {<<imap, 2>>}
=============================================================================
