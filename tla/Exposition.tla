----------------------------- MODULE Exposition -----------------------------
(***************************************************************************)
(* The Prometheus text parser (metrics/parse.rs) over lines already split  *)
(* into tokens: what becomes of every line, which family a sample is given *)
(* to, and what is reported.  A name is a base and a part, so that the     *)
(* suffixes of histogram and summary samples can be told: "_bucket" and so *)
(* on, or "" for none.                                                     *)
(*                                                                         *)
(* A line is a record whose form is "type", "help", "sample" or "other":   *)
(* blank lines, and comments of another kind.                              *)
(***************************************************************************)
EXTENDS Integers, SequencesExt, Folding

CONSTANTS
  MaxIssues     \* MAX_PARSE_ISSUES: 64

ASSUME IssuesAssumption == MaxIssues \in Nat

\* ScrapeText, empty.  The index by name is the families' own names.
NoText == [families |-> <<>>, issues |-> <<>>, issue_count |-> 0]

Named(out, name) == {i \in DOMAIN out.families : out.families[i].name = name}
IndexOf(out, name) == CHOOSE i \in Named(out, name) : TRUE

ensure_family(out, name) ==
  IF Named(out, name) # {} THEN out
  ELSE [out EXCEPT !.families = Append(@, [name |-> name, kind |-> "untyped", samples |-> <<>>])]

\* HELP and TYPE declare their family; of the two only TYPE says something
\* the program goes on to use.
KnownKinds == {"counter", "gauge", "histogram", "summary"}

handle_comment(out, line) ==
  LET known == ensure_family(out, line.name) IN
  IF line.form = "help" THEN known
  ELSE [known EXCEPT !.families[IndexOf(known, line.name)].kind =
          IF line.kind \in KnownKinds THEN line.kind ELSE "untyped"]

\* name [{labels}] value [timestamp], the labels read before.
Numeric(token) == token.is \in {"number", "integer"}

parse_sample_line(line) ==
  /\ line.name[1] # "" /\ line.closed
  /\ Len(line.tokens) \in {1, 2}
  /\ Numeric(line.tokens[1])
  /\ Len(line.tokens) = 2 => line.tokens[2].is = "integer"

\* The family a sample belongs to: its own name first, then the declared
\* histogram or summary it is a part of.
Takes(family, part) ==
  \/ family.kind = "histogram"
  \/ family.kind = "summary" /\ part # "_bucket"

Owner_Fault(out, name) == name
Owner(out, name) ==
  LET base == <<name[1], "">> IN
  IF /\ Named(out, name) = {}
     /\ name[2] # "" /\ Named(out, base) # {}
     /\ Takes(out.families[IndexOf(out, base)], name[2])
  THEN base ELSE name

attach_sample(out, line) ==
  LET owner == Owner(out, line.name)
      known == ensure_family(out, owner)
      sample == [name |-> line.name, labels |-> line.labels, value |-> line.tokens[1].v]
  IN [known EXCEPT !.families[IndexOf(known, owner)].samples = Append(@, sample)]

record_issue(out, line) ==
  [out EXCEPT !.issue_count = @ + 1,
              !.issues = IF Len(@) >= MaxIssues THEN @ ELSE Append(@, line)]

Line(out, line) ==
  CASE line.form = "other" -> out
    [] line.form \in {"help", "type"} -> handle_comment(out, line)
    [] line.form = "sample" /\ parse_sample_line(line) -> attach_sample(out, line)
    [] OTHER -> record_issue(out, line)

parse_text(text) == Fold(Line, NoText, text)
=============================================================================
