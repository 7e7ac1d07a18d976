SPECIFICATION Spec
CHECK_DEADLOCK FALSE
CONSTANTS
  app = app  utils = utils  lib = lib  vendor = vendor  page = page  imap = imap
  appJs = appJs  utilsJs = utilsJs  libJs = libJs  pageCss = pageCss  imapJson = imapJson  goneJs = goneJs
  r1 = r1  r2 = r2  b1 = b1  New = New  None = None
  Files = {app, utils, lib}
  Paths = {appJs, utilsJs, libJs, goneJs}
  Versions = {1, 2}
  Reqs = {r1}
  Reloads = {}
  MaxEdits = 1
  PathOf <- MCPathOf
  Lang <- MCLang
  Refs <- MCRefs
  Entries <- MCEntries
  NoJson = {}
  WalkOrder <- MCWalkOrder
  MapPaths <- MCMapPaths
  ReqPath <- MCReqPath
INVARIANT CacheBusting
