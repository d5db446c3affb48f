----------------------------- MODULE EntryNames -----------------------------
(***************************************************************************)
(* Archive entry names and the output paths they are mapped to.            *)
(*                                                                         *)
(* An entry name is an untrusted string from the archive index.  The code  *)
(* only looks at it through std::path::Path::components(), so a name is    *)
(* modelled by its component sequence: "/" (RootDir, first only), "."      *)
(* (CurDir), ".." (ParentDir) or a normal component, one character of      *)
(* NormalNames.  Two names with the same components and different spelling *)
(* ("a" and "a/") are one name here.                                       *)
(*                                                                         *)
(* The names are sorted (iter.sort() on Vec<String>) by their bytes, so    *)
(* the rendering of a name as a string and the byte order of its           *)
(* characters are modelled: the order decides which of two colliding       *)
(* entries is written last.                                                *)
(***************************************************************************)
EXTENDS Integers, Sequences

CONSTANTS
  NormalNames,  \* normal path components, each a one-character string
  ByteOf,       \* the byte value of each character of NormalNames
  MaxDepth      \* the longest output path, in components

RootDir == "/"
CurDir == "."
ParentDir == ".."

Comps == NormalNames \cup {RootDir, CurDir, ParentDir}

ASSUME NamesAssumption ==
  /\ NormalNames \cap {RootDir, CurDir, ParentDir, "*", "?"} = {}
  /\ ByteOf \in [NormalNames -> 48..255]
  /\ \A c, d \in NormalNames : c # d => ByteOf[c] # ByteOf[d]

ASSUME DepthAssumption == MaxDepth \in Nat \ {0}

(* Relative paths below the output directory: the root itself is <<>>.    *)
Paths == UNION { [1..k -> NormalNames] : k \in 1..MaxDepth }

(* The first k components of p.                                           *)
Pre(p, k) == SubSeq(p, 1, k)

(* The directory that contains p (extracted_path.parent()).               *)
Dir(p) == Pre(p, Len(p) - 1)

(***************************************************************************)
(* Rendering and byte order, for iter.sort() (main.rs 471-472).            *)
(***************************************************************************)
Byte(c) == CASE c = CurDir  -> 46
             [] c = RootDir -> 47
             [] OTHER       -> ByteOf[c]

CompChars(c) == IF c = ParentDir THEN <<CurDir, CurDir>> ELSE <<c>>

(* The string of a name: components joined by "/", none after a root.     *)
Render(n) ==
  LET R[i \in 0..Len(n)] ==
        IF i = 0 THEN <<>>
        ELSE R[i - 1]
             \o (IF i > 1 /\ n[i - 1] # RootDir THEN <<RootDir>> ELSE <<>>)
             \o CompChars(n[i])
  IN  R[Len(n)]

(* Lexicographic byte order of two strings (Ord for String).               *)
StrLt(s, t) ==
  \E k \in 0..Len(s) :
    /\ k <= Len(t)
    /\ Pre(s, k) = Pre(t, k)
    /\ \/ k = Len(s) /\ k < Len(t)
       \/ k < Len(s) /\ k < Len(t) /\ Byte(s[k + 1]) < Byte(t[k + 1])

NameLt(n, m) == StrLt(Render(n), Render(m))

(* Mutant of IsFirst: the names visited in reverse order.                 *)
IsFirstReversed(n, S) == n \in S /\ \A m \in S \ {n} : NameLt(m, n)

(* n is the next name of the sorted list restricted to the names in S.     *)
IsFirst(n, S) == n \in S /\ \A m \in S \ {n} : NameLt(n, m)

(***************************************************************************)
(* get_extracted_path (main.rs 292-317): root, prefix and "." components   *)
(* are dropped, a ".." rejects the name, normal components are pushed.     *)
(* A rejected name and a name with no normal component (whose containing   *)
(* directory, the parent of the output directory, fails the starts_with    *)
(* check of create_file) are both skipped without touching the disk: Dest  *)
(* returns <<>>, which is not in Paths, for both.                          *)
(***************************************************************************)
IsNormal(c) == c \in NormalNames

HasParentDir(n) == \E i \in 1..Len(n) : n[i] = ParentDir

(* Mutant of Dest: a ".." component skipped like a "." one.                *)
DestSkipParent(n) == SelectSeq(n, IsNormal)

Dest(n) == IF HasParentDir(n) THEN <<>> ELSE SelectSeq(n, IsNormal)

=============================================================================
