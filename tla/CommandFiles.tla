---------------------------- MODULE CommandFiles ----------------------------
(***************************************************************************)
(* What a process says to the runner: ParseKeyValueFile (internal/commands/ *)
(* files.go) on the lines of a GITHUB_ENV, GITHUB_OUTPUT or GITHUB_STATE   *)
(* file, and ParseLegacyOutputs (internal/commands/legacy.go) on the       *)
(* set-output commands of the standard output, in either form.  A line is  *)
(* a string.  The scanner's limit on the length of a line is left out.     *)
(***************************************************************************)
EXTENDS Naturals, Sequences, SequencesExt, FiniteSetsExt, TLC

EmptyMap == <<>>

\* Where sep first begins in s, or 0.
Index(s, sep) ==
  LET Begins(i) == SubSeq(s, i, i + Len(sep) - 1) = sep
      at == {i \in 1..Len(s) - Len(sep) + 1 : Begins(i)}
  IN  IF at = {} THEN 0 ELSE Min(at)

Before(s, i) == SubSeq(s, 1, i - 1)
From(s, i) == SubSeq(s, i, Len(s))

JoinLines(lines) ==
  IF lines = <<>> THEN ""
  ELSE FoldLeft(LAMBDA text, l : text \o "\n" \o l, Head(lines), Tail(lines))

\* The scanner, outside a heredoc or inside one; what a heredoc has so far
\* is its value should the file end.
Reading == [result |-> EmptyMap, inside |-> FALSE, name |-> "", delim |-> "", lines |-> <<>>]

Enter(at, line, i) ==
  [at EXCEPT !.inside = TRUE, !.name = Before(line, i), !.delim = From(line, i + 2),
             !.lines = <<>>, !.result = (Before(line, i) :> "") @@ @]

Collect(at, line) ==
  LET lines == Append(at.lines, line)
  IN  [at EXCEPT !.lines = lines, !.result = (at.name :> JoinLines(lines)) @@ @]

\* A name keeps the value it was given first.
AssignOnce(at, line, i) ==
  [at EXCEPT !.result = @ @@ (Before(line, i) :> From(line, i + 1))]

Assign(at, line, i) ==
  [at EXCEPT !.result = (Before(line, i) :> From(line, i + 1)) @@ @]

\* << anywhere in a line is tried before = is.
ScanLine(at, line) ==
  CASE at.inside /\ line = at.delim -> [at EXCEPT !.inside = FALSE]
    [] at.inside /\ line # at.delim -> Collect(at, line)
    [] ~at.inside /\ Index(line, "<<") # 0 -> Enter(at, line, Index(line, "<<"))
    [] ~at.inside /\ Index(line, "<<") = 0 /\ Index(line, "=") # 0 ->
         Assign(at, line, Index(line, "="))
    [] OTHER -> at

ParseKeyValueFile(lines) == FoldLeft(ScanLine, Reading, lines).result

\* The values of one form of the command; the later one counts.
OutputsOfForm(said, form) ==
  FoldLeft(LAMBDA map, s : IF s.form = form THEN (s.name :> s.text) @@ map ELSE map,
           EmptyMap, said)

\* ##[set-output name=N;]V counts before ::set-output name=N::V.
ParseLegacyOutputs(said) == OutputsOfForm(said, "bracket") @@ OutputsOfForm(said, "colon")
=============================================================================
