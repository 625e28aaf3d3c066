----------------------------- MODULE FilePaths -----------------------------
(* base/file_path: POSIX path names as texts.  FindDriveLetter answers npos,  *)
(* so letter + 1 is 0, letter + 2 is 1 and letter + 3 is 2 throughout.        *)
EXTENDS AsciiText

kCurrentDirectory == <<Dot>>
kParentDirectory == <<Dot, Dot>>
\* "gz", "z" and "bz2" may be the second half of an extension like ".tar.gz".
kCommonDoubleExtensions == {<<103, 122>>, <<122>>, <<98, 122, 50>>}

IsSeparator(c) == c = Slash
IsPathAbsolute(p) == p # <<>> /\ IsSeparator(p[1])
AreAllSeparators(p) == \A i \in DOMAIN p : IsSeparator(p[i])
LastSeparator(p) == rfindChar(p, Slash, npos)

\* The constructor keeps what comes before the first NUL.
FilePath(s) == PieceOfCString(s)

\* StripTrailingSeparatorsInternal: one character stays, and "//" as a whole does.
StripTrailingSeparators(p) ==
  IF p = <<Slash, Slash>> THEN p
  ELSE SubSeq(p, 1, 1 + LargestOr({i \in Positions(p) : i = 0 \/ ~IsSeparator(At(p, i))}, -1))

\* Faulty variant: the separator of a root directory is cut off, too.
DirNameOfRootLost(p) ==
  LET q    == StripTrailingSeparators(p)
      last == LastSeparator(q)
      dir  == StripTrailingSeparators(SubSeq(q, 1, IF last = npos THEN 0 ELSE last))
  IN IF dir = <<>> THEN kCurrentDirectory ELSE dir

DirName(p) ==
  LET q    == StripTrailingSeparators(p)
      last == LastSeparator(q)
      size == CASE last = npos -> 0
                [] last = 0 -> 1
                [] last = 1 /\ IsSeparator(At(q, 0)) -> 2
                [] OTHER -> last
      dir  == StripTrailingSeparators(SubSeq(q, 1, size))
  IN IF dir = <<>> THEN kCurrentDirectory ELSE dir

BaseName(p) ==
  LET q    == StripTrailingSeparators(p)
      last == LastSeparator(q)
  IN IF last # npos /\ last < Len(q) - 1 THEN remove_prefix(q, last + 1) ELSE q

\* ExtensionSeparatorPosition: the last dot, or the one before it if the two
\* enclose one to four characters and a common compression suffix follows.
ExtensionSeparatorPosition(p) ==
  LET last == rfindChar(p, Dot, npos)
      penultimate == rfindChar(p, Dot, last - 1)
      separator   == rfindChar(p, Slash, last - 1)
      double == /\ \E e \in kCommonDoubleExtensions : LowerCaseEqualsASCII(remove_prefix(p, last + 1), e)
                /\ penultimate # npos
                /\ separator = npos \/ penultimate > separator
                /\ last - penultimate \in 2..5
  IN CASE p \in {kCurrentDirectory, kParentDirectory} -> npos
       [] p \notin {kCurrentDirectory, kParentDirectory} /\ last \in {npos, 0} -> last
       [] OTHER -> IF double THEN penultimate ELSE last

Extension(p) ==
  LET base == BaseName(p)
      dot  == ExtensionSeparatorPosition(base)
  IN IF dot = npos THEN <<>> ELSE remove_prefix(base, dot)

\* The dot is looked for in the whole path here, not in its base name.
RemoveExtension(p) ==
  LET dot == ExtensionSeparatorPosition(p) IN
  IF Extension(p) = <<>> \/ dot = npos THEN p ELSE SubSeq(p, 1, dot)

\* "", "." and ".." have no extension to put something before or to replace.
HasNoExtension(p) == BaseName(p) \in {<<>>, kCurrentDirectory, kParentDirectory}

InsertBeforeExtension(p, suffix) ==
  CASE suffix = <<>> -> p
    [] suffix # <<>> /\ HasNoExtension(p) -> <<>>
    [] OTHER -> FilePath(RemoveExtension(p) \o suffix \o Extension(p))

ReplaceExtension(p, ext) ==
  CASE HasNoExtension(p) -> <<>>
    [] ~HasNoExtension(p) /\ ext \in {<<>>, <<Dot>>} -> RemoveExtension(p)
    [] OTHER -> FilePath(RemoveExtension(p) \o (IF ext[1] = Dot THEN <<>> ELSE <<Dot>>) \o ext)

MatchesExtension(p, ext) ==
  Len(Extension(p)) = Len(ext) /\ CompareCaseInsensitiveASCII(ext, Extension(p)) = 0

\* Append: component ends at its first NUL; the caller may not pass an absolute one.
AppendPath(p, component) ==
  LET appended == PieceOfCString(component)
      dir == StripTrailingSeparators(p)
      separator == appended # <<>> /\ dir # <<>> /\ ~IsSeparator(dir[Len(dir)])
  IN IF p = kCurrentDirectory THEN appended
     ELSE dir \o (IF separator THEN <<Slash>> ELSE <<>>) \o appended

\* One turn of the loop of GetComponents, which ends where DirName changes nothing.
ComponentStep(r) ==
  LET base == BaseName(r.current) IN
  IF r.current = DirName(r.current) THEN r
  ELSE [current |-> DirName(r.current),
        parts   |-> IF AreAllSeparators(base) THEN r.parts ELSE <<base>> \o r.parts]
ComponentLoop(p) == FoldLeft(LAMBDA r, i : ComponentStep(r), [current |-> p, parts |-> <<>>], p \o <<0>>)

GetComponents(p) ==
  LET r == ComponentLoop(p)
      root == BaseName(r.current)
  IN CASE p = <<>> -> <<>>
       [] p # <<>> /\ root \notin {<<>>, kCurrentDirectory} -> <<root>> \o r.parts
       [] OTHER -> r.parts

IsParent(p, child) ==
  LET pc == GetComponents(p)
      cc == GetComponents(child)
  IN Len(pc) < Len(cc) /\ pc # <<>> /\ SubSeq(cc, 1, Len(pc)) = pc

\* AppendRelativePath: path with the components of child that p does not have.
AppendRelativePath(p, child, path) ==
  IF IsParent(p, child)
  THEN FoldLeft(AppendPath, path, remove_prefix(GetComponents(child), Len(GetComponents(p))))
  ELSE path

ReferencesParent(p) == \E i \in DOMAIN GetComponents(p) : GetComponents(p)[i] = kParentDirectory
=============================================================================
