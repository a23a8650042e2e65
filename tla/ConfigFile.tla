----------------------------- MODULE ConfigFile -----------------------------
(***************************************************************************)
(* The text of config.ini as its readers and writers see it: a sequence of *)
(* lines, a line being a key and a value.  Comments, which the writers     *)
(* copy with their line, count as part of the value.                       *)
(***************************************************************************)
EXTENDS Naturals, Sequences, FiniteSetsExt

CONSTANTS Keys,         \* keys of config.ini
          Values,       \* well-formed values
          Malformed,    \* a value the loader refuses
          Default,      \* stands for the default of an absent key
          Files         \* contents config.ini may have at first

Line == [key : Keys \cup {"junk"}, val : Values \cup {Malformed}]
Junk == [key |-> "junk", val |-> Malformed]   \* a line no parser reads

ASSUME FileAssumption ==
  /\ "junk" \notin Keys
  /\ Malformed \notin Values /\ Default \notin Values \cup {Malformed}
  /\ Files \subseteq Seq(Line)

LinesOf(lines, k) == {i \in DOMAIN lines : lines[i].key = k}

(* The executable takes the first line of a key ... *)
FirstOf(lines, k) ==
  IF LinesOf(lines, k) = {} THEN Default ELSE lines[Min(LinesOf(lines, k))].val

(* ... and the server's snapshot the last. *)
LastOf(lines, k) ==
  IF LinesOf(lines, k) = {} THEN Default ELSE lines[Max(LinesOf(lines, k))].val

\* Variant: an absent key is not added.
TimidRewritten(lines, k, v) ==
  IF LinesOf(lines, k) = {} THEN lines ELSE [lines EXCEPT ![Min(LinesOf(lines, k))].val = v]

\* Variant: of repeated lines the last is rewritten.
LastRewritten(lines, k, v) ==
  IF LinesOf(lines, k) = {}
    THEN Append(lines, [key |-> k, val |-> v])
    ELSE [lines EXCEPT ![Max(LinesOf(lines, k))].val = v]

Rewritten(lines, k, v) ==
  IF LinesOf(lines, k) = {}
    THEN Append(lines, [key |-> k, val |-> v])
    ELSE [lines EXCEPT ![Min(LinesOf(lines, k))].val = v]

(* What a file holds after `new` is written from its start over `old`: if   *)
(* `old` is longer, its tail remains, cut anywhere.                         *)
WrittenOver(old, new) ==
  {new} \cup (IF old = <<>> THEN {}
              ELSE {Append(new, Junk), new \o SubSeq(old, Len(new) + 1, Len(old))})

(* new is old with lines of k added or the first of them changed. *)
OnlyKey(old, new, k) ==
  /\ DOMAIN old \subseteq DOMAIN new
  /\ \A i \in DOMAIN new : new[i].key # k => i \in DOMAIN old /\ new[i] = old[i]
  /\ \A i \in DOMAIN old : old[i].key = k <=> new[i].key = k
  /\ \A i \in LinesOf(old, k) : new[i] # old[i] => i = Min(LinesOf(old, k))

=============================================================================
