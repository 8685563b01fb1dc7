----------------------------- MODULE DutyAudit -----------------------------
(***************************************************************************)
(* What a declared line should pay, and which findings about money its     *)
(* filing earns: duty/calculator.ts (the Chapter 99 measures that reach a  *)
(* line and what displaces them) and rules 1 to 4 of audit/rules.ts for an *)
(* entry past the trust gate.  Both are pure; the actions change what they *)
(* are given: the shipments and the charges of the 7501.                   *)
(*                                                                         *)
(* Amounts are in percent of the entered value, as rates are; the line's   *)
(* code agrees with the catalog and its country is known.                  *)
(***************************************************************************)
EXTENDS Integers, Sequences, FiniteSets, Functions

CONSTANTS
  Headings,     \* Chapter 99 measures
  Lines,        \* lines: general and special rate, and the status of the SPI claim
  StackingRules,\* the stacking rules in force, in their order
  SailDays,     \* days on which shipments sail
  Unset,        \* null
  MaxHeadings   \* bound: measures in the reference

\* A heading: its code and the $0 code that claims its exclusion; its program,
\* authority and rate; whether its window, scope and origins cover the line, and
\* whether it is restricted to origins; the sail window, the ceiling and the
\* carve-out of its exclusion; its first day.
Heading == [code : STRING, exempt : STRING \cup {Unset}, program : STRING \cup {Unset},
            authority : STRING, percent : Nat \cup {Unset}, covers : BOOLEAN,
            active : BOOLEAN, specific : BOOLEAN, after : Int \cup {Unset},
            before : Int \cup {Unset}, inLieu : BOOLEAN, below : Nat \cup {Unset},
            trigger : STRING \cup {Unset}, from : Int]

Claims == {"none", "eligible", "ineligible", "unverifiable", "lapsed"}

\* What is asked for on account of a heading; not its dates, nor its name.
Duty(m) == [code |-> m.code, exempt |-> m.exempt, program |-> m.program, authority |-> m.authority,
            percent |-> m.percent, trigger |-> m.trigger, inLieu |-> m.inLieu]

\* Rows of one code and rate, split by sail dates, ask for the same duty, of the
\* same origins, and are of one age beside the other headings of their program
\* and rate, which are not of equal age.  What triggers a carve-out has none
\* itself.  Ceilings that reach one line have one code: a country has one.
ASSUME HeadingsAssumption ==
  /\ Headings \subseteq Heading
  /\ \A m, n \in Headings : m.code = n.code =>
       /\ m.authority = n.authority
       /\ m.percent = n.percent => Duty(m) = Duty(n) /\ m.specific = n.specific
  /\ \A m, n, o \in Headings :
       /\ m.code = n.code /\ m.code # o.code
       /\ m.program = o.program /\ o.program # Unset
       /\ m.percent = o.percent /\ n.percent = o.percent
       => (m.from < o.from /\ n.from < o.from) \/ (m.from > o.from /\ n.from > o.from)
  /\ \A m, n \in Headings : m # n =>
       /\ m.program = n.trigger /\ n.trigger # Unset => m.trigger = Unset
       /\ ~(m.inLieu /\ n.inLieu /\ m.covers /\ n.covers /\ m.active /\ n.active) \/ m.code = n.code
ASSUME UnsetAssumption == Unset \notin STRING \cup Int
ASSUME StackingAssumption ==
  StackingRules \in Seq([winner : STRING, loser : STRING])
ASSUME LinesAssumption ==
  /\ Lines \subseteq [general : Nat \cup {Unset}, special : Nat \cup {Unset}, claim : Claims]
  /\ SailDays \subseteq Int /\ MaxHeadings \in Nat /\ IsFiniteSet(Headings)

VARIABLES
  duties,    \* the measures of the reference
  goods,     \* the line
  sailed,    \* days on which its linked shipments sailed
  declared   \* the charges of its filing, in their order

dutyVars == <<duties, goods, sailed, declared>>

-----------------------------------------------------------------------------
(* The calculator.                                                         *)

\* resolveColumnOneRate: an eligible claim prices the special rate.
ColumnOne(line) == IF line.claim = "eligible" THEN line.special ELSE line.general

\* The gates before the sail dates: window, scope, origin and ceiling.
Reaches(m, line) ==
  /\ m.active /\ m.covers
  /\ m.below = Unset \/ ColumnOne(line) = Unset \/ ColumnOne(line) < m.below

\* No linked shipment falls in the measure's sail window.
TooEarly(m, days) == m.after # Unset /\ days # {} /\ \A day \in days : day < m.after
TooLate(m, days) == m.before # Unset /\ days # {} /\ \A day \in days : day > m.before

\* Some do and some do not, or nothing is known.
Undecided(m, days) ==
  /\ ~TooEarly(m, days)
  /\ \/ m.after # Unset /\ (days = {} \/ \E day \in days : day < m.after)
     \/ /\ ~TooLate(m, days) /\ m.before # Unset
        /\ (days = {} \/ \E day \in days : day > m.before)

\* A loop over the rows, or over the rules: FoldLeft, as a recursive function
\* that can be reasoned about.
Loop(Body(_, _), start, rows) ==
  LET after[n \in 0..Len(rows)] == IF n = 0 THEN start ELSE Body(after[n - 1], rows[n])
  IN after[Len(rows)]

\* filter()
Among(read, kept) ==
  Loop(LAMBDA found, m : IF m \in kept THEN Append(found, m) ELSE found, <<>>, read)

Candidate(m, line, days) == Reaches(m, line) /\ ~TooEarly(m, days) /\ ~TooLate(m, days)
Candidates(read, line, days) == Among(read, {m \in Range(read) : Candidate(m, line, days)})

Price(m) == IF m.percent = Unset THEN -1 ELSE m.percent

\* Mutant: the one read first stands.
OnePerCodeFirst(read) ==
  Loop(LAMBDA kept, m : IF \E i \in DOMAIN kept : kept[i].code = m.code THEN kept
                        ELSE Append(kept, m), <<>>, read)

\* Siblings split by sail dates share a code: the costlier stands.
KeepCostlier(kept, m) ==
  IF \A i \in DOMAIN kept : kept[i].code # m.code THEN Append(kept, m)
  ELSE [i \in DOMAIN kept |-> IF kept[i].code = m.code /\ Price(m) > Price(kept[i]) THEN m ELSE kept[i]]

OnePerCode(read) == Loop(KeepCostlier, <<>>, read)

\* Headings with origins stand before a program's baseline.
Group(rows, program) == {m \in rows : m.program = program}
Tier(rows, program) ==
  IF \E m \in Group(rows, program) : m.specific
  THEN {m \in Group(rows, program) : m.specific} ELSE Group(rows, program)

Beats(m, w) == Price(m) > Price(w) \/ (Price(m) = Price(w) /\ m.from > w.from)

Leader(tier) == Loop(LAMBDA w, m : IF Beats(m, w) THEN m ELSE w, tier[1], tier)
Winner(read, program) == Leader(Among(read, Tier(Range(read), program)))

OnePerProgram(read) ==
  Among(read, {m \in Range(read) : m.program = Unset \/ m = Winner(read, m.program)})

\* applyStacking: a suppressed loser no longer wins.
Suppress(left, rule) ==
  IF \E i \in DOMAIN left : left[i].authority = rule.winner
  THEN Among(left, {m \in Range(left) : m.authority # rule.loser}) ELSE left

Stacked(read) == Loop(Suppress, read, StackingRules)

BeforeCarveOuts(read, line, days) ==
  Stacked(OnePerProgram(OnePerCode(Candidates(read, line, days))))

\* The first measure whose carve-out another one triggers leaves, until none does.
Triggered(left) ==
  {i \in DOMAIN left : left[i].trigger # Unset /\
     \E j \in DOMAIN left \ {i} : left[j].program = left[i].trigger}

Displace(left) ==
  IF Triggered(left) = {} THEN left
  ELSE LET i == CHOOSE k \in Triggered(left) : \A j \in Triggered(left) : k <= j
       IN SubSeq(left, 1, i - 1) \o SubSeq(left, i + 1, Len(left))

CarvedOut(read) == Loop(LAMBDA left, m : Displace(left), read, read)

Expected(read, line, days) == CarvedOut(BeforeCarveOuts(read, line, days))

\* The expectation rests on an assumption about the sail dates.
Dated(m) == m.after # Unset \/ m.before # Unset

SailAssumed(read, line, days) ==
  LET candidates == Candidates(read, line, days)
      deduped == OnePerCode(candidates)
  IN /\ \E m \in Range(read) : Reaches(m, line) /\ Dated(m)
     /\ \/ \E m \in Range(read) : Reaches(m, line) /\ Undecided(m, days)
        \/ Len(deduped) < Len(candidates)
        \/ \E m, n \in Range(deduped) :
             LET tier == Tier(Range(deduped), m.program) IN
             /\ m.program # Unset /\ m # n /\ {m, n} \subseteq tier
             /\ \E o \in tier : Dated(o)

-----------------------------------------------------------------------------
(* The audit of a line's charges.                                          *)

Tolerance == 1

\* A charge: base or additional duty, its code, the printed rate, the amount.
Charge(base, code, percent, amount) ==
  [base |-> base, code |-> code, percent |-> percent, amount |-> amount]

Codes(charges) == {c.code : c \in Range(charges)} \ {Unset}
Gap(a, b) == IF a < b THEN b - a ELSE a - b
Dollars(charges, code) == Loop(LAMBDA s, c : IF c.code = code THEN s + c.amount ELSE s, 0, charges)

\* The heading charged instead of the column-1 rate, unless its exclusion is
\* claimed.
InLieu(expected) == Among(expected, {m \in Range(expected) : m.inLieu})

\* Mutant: the claim of the heading's exclusion does not restore the rate.
ReplacedByScope(expected, charges) == InLieu(expected) # <<>>

Replaced(expected, charges) ==
  InLieu(expected) # <<>> /\ InLieu(expected)[1].exempt \notin Codes(charges)

BaseOwed(expected, line, charges) ==
  IF ColumnOne(line) = Unset THEN 0
  ELSE IF Replaced(expected, charges) THEN 0 ELSE ColumnOne(line)

\* Rule 1: neither charged nor claimed away.
MissingMeasures(expected, charges) ==
  {<<"missing", m.code>> : m \in {n \in Range(expected) : {n.code, n.exempt} \cap Codes(charges) = {}}}

\* Rule 1b.
MissingBase(expected, line, charges) ==
  IF /\ ~\E c \in Range(charges) : c.base
     /\ line.claim \notin {"unverifiable", "lapsed"}
     /\ BaseOwed(expected, line, charges) > 0
  THEN {<<"missing", "base">>} ELSE {}

\* A displaced measure stands where the exclusion of its trigger is claimed.
Negated(code, read, expected, line, days, charges) ==
  \E m \in Range(BeforeCarveOuts(read, line, days)) \ Range(expected) :
    /\ m.code = code
    /\ \E t \in Range(expected) : t.program = m.trigger /\ t.exempt \in Codes(charges)

\* Rule 2: a charge nobody expected, unless it is an exclusion, one list of an
\* expected authority, or stands in for a trigger.
UnexpectedMeasures(read, expected, line, days, charges) ==
  {<<"unexpected", c.code>> : c \in {d \in Range(charges) :
     /\ ~d.base /\ d.amount # 0 /\ d.code # Unset
     /\ ~\E m \in Range(expected) : m.code = d.code
     /\ ~\E m \in Range(read) : m.exempt = d.code /\ m.active
     /\ ~\E m \in Range(read) : m.code = d.code /\
           \E n \in Range(expected) : n.authority = m.authority
     /\ ~Negated(d.code, read, expected, line, days, charges)}}

\* The dollars of a ceiling heading keyed onto the base duty: together they close.
Closes(c, expected, charges) ==
  LET heading == InLieu(expected)[1] IN
  /\ c.base /\ Replaced(expected, charges)
  /\ heading.percent # Unset /\ heading.code \in Codes(charges)
  /\ Gap(c.amount + Dollars(charges, heading.code), heading.percent) <= Tolerance

\* The rate a charge is compared with, or Unset.
OfficialRate(c, expected, line, charges) ==
  IF c.base THEN IF ColumnOne(line) = Unset \/ Closes(c, expected, charges) THEN Unset
                 ELSE BaseOwed(expected, line, charges)
  ELSE LET same == Among(expected, {m \in Range(expected) : m.code = c.code}) IN
       IF c.code = Unset \/ same = <<>> THEN Unset ELSE same[1].percent

\* Rule 3: the printed rate deviates, unless the dollars back the official one.
\* Rule 4: the amount does; $0 claims an exclusion.
Mismatches(expected, line, charges) ==
  LET Against(c) == OfficialRate(c, expected, line, charges)
      Compared == {c \in Range(charges) : Against(c) # Unset}
      Backed(c) == /\ Gap(c.amount, Against(c)) <= Tolerance
                   /\ Gap(c.amount, Against(c)) < Gap(c.amount, c.percent)
  IN {<<"rate", c.code>> : c \in {d \in Compared :
        d.percent # Unset /\ d.percent # Against(d) /\ ~Backed(d)}} \cup
     {<<"amount", c.code>> : c \in {d \in Compared :
        d.amount # 0 /\ Gap(d.amount, Against(d)) > Tolerance}}

Findings(read, line, days, charges) ==
  LET expected == Expected(read, line, days) IN
  IF charges = <<>> THEN {}
  ELSE MissingMeasures(expected, charges) \cup MissingBase(expected, line, charges) \cup
       UnexpectedMeasures(read, expected, line, days, charges) \cup
       Mismatches(expected, line, charges)

-----------------------------------------------------------------------------
(* What they are given.                                                    *)

\* The rows as a query without ORDER BY returns them, once.
Orders == Bijection(1..Cardinality(duties), duties)
AsRead == CHOOSE read \in Orders : TRUE

\* The ways a broker declares a measure: charged by the list; misread; short; claimed away; waived on its own code; left out.
Ways(m) ==
  LET p == IF m.percent = Unset THEN 3 ELSE m.percent IN
  {<<>>, <<Charge(FALSE, m.code, m.percent, p)>>,
   <<Charge(FALSE, m.code, p + 20, p)>>, <<Charge(FALSE, m.code, p, p - 2)>>,
   <<Charge(FALSE, m.code, Unset, 0)>>} \cup
  (IF m.exempt = Unset THEN {} ELSE {<<Charge(FALSE, m.exempt, Unset, 0)>>})

BaseWays(line) ==
  {<<>>} \cup {<<Charge(TRUE, Unset, p, p)>> :
                 p \in {0} \cup ({line.general, line.special, 15} \ {Unset})}

DutyInit ==
  /\ duties \in {rows \in SUBSET Headings : Cardinality(rows) <= MaxHeadings}
  /\ goods \in Lines
  /\ sailed = {} /\ declared = <<>>

\* The linker links a shipment with its date.
LinkShipment ==
  /\ \E day \in SailDays \ sailed : sailed' = sailed \cup {day}
  /\ UNCHANGED <<duties, goods, declared>>

\* The linker writes the line's charges, once (the findings depend on what is on
\* file, not on what it replaced): those of the base duty and of up to two
\* measures, expected or not.
Ingest ==
  /\ declared = <<>>
  /\ LET Declarations(i) == IF i \in DOMAIN AsRead THEN Ways(AsRead[i]) ELSE {<<>>} IN
     \E i \in 1..MaxHeadings : \E j \in i..MaxHeadings :
     \E base \in BaseWays(goods), first \in Declarations(i), second \in IF j = i THEN {<<>>} ELSE Declarations(j) :
       declared' = base \o first \o second
  /\ UNCHANGED <<duties, goods, sailed>>

DutyNext == LinkShipment \/ Ingest

DutySpec == DutyInit /\ [][DutyNext]_dutyVars

-----------------------------------------------------------------------------
(* Properties.                                                             *)

Duties(expected) == {Duty(m) : m \in Range(expected)}

\* "Deterministic duty math": what is asked for on a line does not depend on the
\* order in which the query, which has none, returns the rows.  Of rows of one
\* code and rate that both pass undecided sail dates the one read first is
\* named, whichever it is: the duty is the same.
OrderFree ==
  declared = <<>> => \A read \in Orders :
    /\ Duties(Expected(read, goods, sailed)) = Duties(Expected(AsRead, goods, sailed))
    /\ SailAssumed(read, goods, sailed) = SailAssumed(AsRead, goods, sailed)

\* "Assumed = a condition could not be decided": an expectation not marked so is
\* the same whichever of the linked shipments the line was on.
SailBasisSound ==
  declared = <<>> /\ ~SailAssumed(AsRead, goods, sailed) =>
    \A day \in (IF sailed = {} THEN SailDays ELSE sailed) :
      Range(Expected(AsRead, goods, {day})) = Range(Expected(AsRead, goods, sailed))

\* What is expected of a line is decided by what is on file, or says that it is not.
ExpectationStands == OrderFree /\ SailBasisSound

Of(charges, code) == {i \in DOMAIN charges : charges[i].code = code}
BaseOf(charges) == {i \in DOMAIN charges : charges[i].base}

\* The base duty that is due: none under a ceiling heading that is not claimed away.
BaseDue(expected, line, charges) ==
  IF \/ ColumnOne(line) = Unset
     \/ \E m \in Range(expected) : m.inLieu /\ m.exempt \notin Codes(charges)
  THEN 0 ELSE ColumnOne(line)

\* A filing that pays each expected measure by the list or claims its exclusion,
\* and the base duty that then stands; a measure displaced by one whose exclusion
\* is claimed may be paid.
Correct(read, line, days, charges) ==
  LET expected == Expected(read, line, days)
      owed == BaseDue(expected, line, charges)
      Paid(m) == \E i \in Of(charges, m.code) :
        /\ Of(charges, m.code) = {i}
        /\ charges[i].percent \in {Unset, m.percent}
        /\ m.percent # Unset => charges[i].amount = m.percent
      Claimed(m) == /\ m.exempt # Unset /\ Of(charges, m.exempt) # {}
                    /\ \A i \in Of(charges, m.exempt) : charges[i].amount = 0
  IN /\ \A m \in Range(expected) : IF Claimed(m) THEN Of(charges, m.code) = {} ELSE Paid(m)
     /\ \A i \in DOMAIN charges :
          \/ i \in BaseOf(charges)
          \/ \E m \in Range(expected) : charges[i].code \in {m.code, m.exempt}
          \/ Negated(charges[i].code, read, expected, line, days, charges)
     /\ \/ ColumnOne(line) = Unset
        \/ \E i \in BaseOf(charges) : /\ BaseOf(charges) = {i}
                                      /\ charges[i].percent = owed /\ charges[i].amount = owed
        \/ owed = 0 /\ BaseOf(charges) = {}

\* A correct filing has no finding, whichever of the alternatives it takes.
CorrectIsSilent(found) == found # {} => ~Correct(AsRead, goods, sailed, declared)

\* A filing without a finding has paid every expected measure whose exclusion it
\* does not claim and whose charge it does not waive, and the base duty unless
\* that is waived or the claim is not contested, within the tolerance.
SilenceIsPaid(found) ==
  declared # <<>> /\ found = {} =>
    LET expected == Expected(AsRead, goods, sailed)
        owed == BaseDue(expected, goods, declared)
        Pays(charges, amount) == \E i \in charges :
          declared[i].amount = 0 \/ declared[i].amount >= amount - Tolerance
    IN /\ \A m \in Range(expected) :
            \/ m.percent = Unset \/ m.exempt \in Codes(declared)
            \/ Pays(Of(declared, m.code), m.percent)
       /\ \/ owed = 0 \/ goods.claim \in {"unverifiable", "lapsed"}
          \/ Pays(BaseOf(declared), owed)

\* The findings are about money: a correct filing has none, and a filing that
\* has none has paid.
FindingsFair ==
  LET found == Findings(AsRead, goods, sailed, declared) IN
  CorrectIsSilent(found) /\ SilenceIsPaid(found)
=============================================================================
