------------------------------- MODULE Matcher -------------------------------
(***************************************************************************)
(* ExtractFileNameMatcher (main.rs 244-287): which entries 'extract'       *)
(* selects.  A matcher is a record:                                        *)
(*   [kind |-> "anything"]              no 'files' argument                *)
(*   [kind |-> "files", names |-> S]    exact names                        *)
(*   [kind |-> "glob",  pats |-> P]     glob patterns (--glob)             *)
(*   [kind |-> "badglob"]               --glob with an invalid pattern:    *)
(*                                      from_matches panics                *)
(* A pattern is a sequence of characters: "*", "?" or a literal.           *)
(***************************************************************************)
EXTENDS EntryNames

(***************************************************************************)
(* glob::Pattern::matches with the default MatchOptions: "*" matches any   *)
(* string, "/" included (require_literal_separator is false), "?" any one  *)
(* character, a literal itself.  M[i, j]: pattern from i+1 matches string  *)
(* from j+1.  Character classes are not modelled.                          *)
(***************************************************************************)
GlobMatch(pat, s) ==
  LET M[i \in 0..Len(pat), j \in 0..Len(s)] ==
        IF i = Len(pat) THEN j = Len(s)
        ELSE IF pat[i + 1] = "*"
             THEN M[i + 1, j] \/ (j < Len(s) /\ M[i, j + 1])
             ELSE /\ j < Len(s)
                  /\ pat[i + 1] \in {"?", s[j + 1]}
                  /\ M[i + 1, j + 1]
  IN  M[0, 0]

(* match_file_name (main.rs 276-286).                                      *)
Matches(f, n) ==
  CASE f.kind = "files" -> f.names = {} \/ n \in f.names
    [] f.kind = "glob"  -> f.pats = {} \/ \E pat \in f.pats : GlobMatch(pat, Render(n))
    [] OTHER            -> TRUE

=============================================================================
