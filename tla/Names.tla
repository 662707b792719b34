------------------------------- MODULE Names -------------------------------
(***************************************************************************)
(* The names and labels of a runner class: ScaleSetName and ScaleSetLabels *)
(* of internal/config/labels.go, makeRunnerName and sanitizeNamePart of    *)
(* internal/orchestrator/orchestrator.go, labelNamesMatch of               *)
(* internal/scaleset/scaleset.go.                                          *)
(*                                                                         *)
(* A string is a sequence of characters from a small alphabet in which the *)
(* functions' distinctions are kept: letters of both cases, digits, the    *)
(* dash, and a character that is none of these.  The limits are constants, *)
(* in the proportion they have in the code (63 = 54 + 1 + 8).              *)
(***************************************************************************)
EXTENDS Integers, SequencesExt

CONSTANTS
  MaxName,          \* the longest instance name Incus accepts (63)
  MaxScaleSetName,  \* maxScaleSetNameLen (54)
  SuffixLen,        \* the length of randomNameSuffix (8 hexadecimal digits)
  Decimal           \* Decimal[n]: the number n, as %d writes it

Lowercase == {"a", "b", "v", "g", "x", "y"}
Digit == {"0", "1", "2"}

ASSUME NamesAssumption ==
  /\ MaxScaleSetName \in Nat \ {0} /\ SuffixLen \in Nat \ {0}
  /\ MaxName = MaxScaleSetName + 1 + SuffixLen
  /\ DOMAIN Decimal \subseteq Int
  /\ \A n \in DOMAIN Decimal : n > 0 => Decimal[n] \in Seq(Digit) \ {<<>>}

ToLower == [A |-> "a", B |-> "b"]
Character == Lowercase \cup Digit \cup DOMAIN ToLower \cup {"-", "_"}

Lower(s) == [i \in DOMAIN s |-> IF s[i] \in DOMAIN ToLower THEN ToLower[s[i]]
                                                           ELSE s[i]]

Dash == <<"-">>

\* strings.TrimRight(s, "-") and strings.Trim(s, "-").
TrimRight(s) ==
  LET Kept == {i \in DOMAIN s : s[i] # "-"}
  IN IF Kept = {} THEN <<>> ELSE SubSeq(s, 1, Max(Kept))

Trim(s) ==
  LET Kept == {i \in DOMAIN s : s[i] # "-"}
  IN IF Kept = {} THEN <<>> ELSE SubSeq(s, Min(Kept), Max(Kept))

\* What a loop over s has built after each of its elements.
Built(Step(_, _), s) ==
  LET out[i \in 0 .. Len(s)] ==
        IF i = 0 THEN <<>> ELSE Step(out[i - 1], s[i])
  IN out

\* Lower case; every run of other characters than letters and digits becomes
\* one dash; none at either end.
WriteRune(b, r) ==
  IF r \in Lowercase \cup Digit THEN Append(b, r)
  ELSE IF b # <<>> /\ Last(b) = "-" THEN b ELSE Append(b, "-")

SanitizeNamePart(value) ==
  Trim(Built(WriteRune, Lower(value))[Len(value)])

\* Truncation takes from the scale set's name and keeps the suffix.
MakeRunnerName(scaleSet, suffix) ==
  LET set  == SanitizeNamePart(scaleSet)
      suf  == SanitizeNamePart(suffix)
      name == Trim(set \o Dash \o suf)
      room == MaxName - Len(suf) - 1
  IN IF Len(name) <= MaxName THEN name
     ELSE IF room < 1 THEN SubSeq(suf, Len(suf) - MaxName + 1, Len(suf))
     ELSE TrimRight(SubSeq(set, 1, room)) \o Dash \o suf

----------------------------------------------------------------------------

\* "%s-%dvcpu-%dgb-%dgb-%s": the units are one letter long here.
ArchName == [amd64 |-> <<"x">>, arm64 |-> <<"y">>,
             AMD64 |-> <<"x">>, other |-> <<"b">>]

Size(n, unit) == Dash \o (Decimal[n] \o <<unit>>)
ClassPart(class) ==
  Size(class.vcpus, "v") \o Size(class.memory_gib, "g")
    \o Size(class.disk_gib, "g") \o (Dash \o ArchName[class.arch])

ScaleSetName(prefix, class) == prefix \o ClassPart(class)

\* Mutant: labels are compared as they are written.
AddLabel_CaseSensitive(out, l) ==
  IF l = <<>> \/ l \in ToSet(out) THEN out ELSE Append(out, l)

AddLabel(out, l) ==
  IF l = <<>> \/ \E m \in ToSet(out) : Lower(m) = Lower(l)
    THEN out ELSE Append(out, l)

\* The first of labels that differ in case only; the class's name comes last.
ScaleSetLabels(base, className) ==
  LET all == base \o <<className>> IN Built(AddLabel, all)[Len(all)]

\* GitHub keeps, of several labels that differ only in case, the first.
Keep(kept, l) ==
  IF \E m \in ToSet(kept) : Lower(m) = Lower(l) THEN kept ELSE Append(kept, l)

Stored(sent) == Built(Keep, sent)[Len(sent)]

\* It may return them in any order.
Reorderings(s) ==
  {[i \in DOMAIN s |-> s[p[i]]] : p \in Bijection(DOMAIN s, DOMAIN s)}

\* Same names up to case and order.
LabelNamesMatch(existing, want) ==
  /\ Len(existing) = Len(want)
  /\ ToBag([i \in DOMAIN existing |-> Lower(existing[i])])
       = ToBag([i \in DOMAIN want |-> Lower(want[i])])

\* ^[a-z][a-z0-9-]*[a-z0-9]$|^[a-z]$
ValidNamePrefix(s) ==
  /\ s # <<>>
  /\ s[1] \in Lowercase
  /\ Last(s) # "-"
  /\ ToSet(s) \subseteq Lowercase \cup Digit \cup {"-"}
============================================================================
