------------------------------- MODULE Honoraria -------------------------------
(***************************************************************************)
(* The honoraria of one volunteer in one calendar year, and the two        *)
(* thresholds of the tax agency: at T4A a slip is due, at HardBlock no     *)
(* further honorarium may be paid.                                         *)
(*                                                                         *)
(* Source: apps/volunteers/services/honoraria.py, models.py, admin.py.     *)
(*                                                                         *)
(* clean() adds up the other honoraria of the year and locks nothing.  The *)
(* service holds the lock of the volunteer's profile from before clean()   *)
(* until it commits; the form of the back office, which edits a row (its   *)
(* amount, its type or its year), holds no lock.  An expense, or a payment *)
(* of another year, does not count here: it is `apart'.                    *)
(***************************************************************************)
EXTENDS Integers, FiniteSets, FiniteSetsExt

CONSTANTS
  Payments,    \* Honorarium rows
  Payers,      \* requests that create or edit
  Amounts,     \* amounts paid
  T4A,         \* VOLUNTEER_CRA_T4A_THRESHOLD
  HardBlock    \* VOLUNTEER_CRA_HARD_BLOCK

ASSUME HonorariaAssumption ==
  /\ Amounts \subseteq Nat \ {0}
  /\ T4A \in Nat \ {0} /\ HardBlock \in Nat \ {0}
  /\ IsFiniteSet(Payments)

VARIABLES
  honorarium,  \* Honorarium rows, as committed
  payer,       \* requests: the row they have cleaned and will write
  raced        \* history: an edit and another write were in flight together

honorariaVars == <<honorarium, payer, raced>>

Kinds == {"absent", "counted", "apart"}
NoPayment == [kind |-> "absent", amount |-> 0, t4a |-> FALSE]
NoPayer == [op |-> "idle", of |-> {}, row |-> NoPayment, met |-> FALSE]

Counted == {p \in Payments : honorarium[p].kind = "counted"}
Ytd(rows) == MapThenSumSet(LAMBDA p : honorarium[p].amount, rows)

HonorariaInit ==
  /\ honorarium = [p \in Payments |-> NoPayment]
  /\ payer = [r \in Payers |-> NoPayer]
  /\ raced = FALSE

AtWork == {r \in Payers : payer[r].op # "idle"}

\* What clean() makes of a row, given the rest of the year; it refuses by leaving no row.
\* t4a_required is set, never reset.
Projected(p, amount) == Ytd(Counted \ {p}) + amount
Cleaned(p, kind, amount) ==
  IF kind = "apart" THEN {[kind |-> kind, amount |-> amount, t4a |-> honorarium[p].t4a]}
  ELSE IF Projected(p, amount) >= HardBlock THEN {}
  ELSE {[kind |-> kind, amount |-> amount,
         t4a |-> honorarium[p].t4a \/ Projected(p, amount) >= T4A]}

\* op of r meets those already at work, one of them an edit.
Meets(r, op) == {q \in AtWork \ {r} : op = "edit" \/ payer[q].op = "edit"}

CleanRow(r, op, p, row) ==
  payer' = [q \in Payers |->
    IF q = r THEN [op |-> op, of |-> {p}, row |-> row, met |-> Meets(r, op) # {}]
    ELSE [payer[q] EXCEPT !.met = @ \/ q \in Meets(r, op)]]

\* (Mutant.)  The profile is not locked.
ProfileUnheld == TRUE

\* create_honorarium: the lock of the profile is held until the row is committed.
ProfileFree == \A r \in AtWork : payer[r].op # "create"

CreateHonorarium(r, p, amount, kind) ==
  /\ r \notin AtWork /\ ProfileFree
  /\ honorarium[p] = NoPayment /\ \A q \in AtWork : p \notin payer[q].of
  /\ \E row \in Cleaned(p, kind, amount) : CleanRow(r, "create", p, row)
  /\ UNCHANGED <<honorarium, raced>>

EditHonorarium(r, p, amount, kind) ==
  /\ r \notin AtWork
  /\ honorarium[p] # NoPayment
  /\ \E row \in Cleaned(p, kind, amount) : CleanRow(r, "edit", p, row)
  /\ UNCHANGED <<honorarium, raced>>

WriteRow(r) ==
  /\ r \in AtWork
  /\ honorarium' = [p \in Payments |-> IF p \in payer[r].of THEN payer[r].row ELSE honorarium[p]]
  /\ payer' = [payer EXCEPT ![r] = NoPayer]
  /\ raced' = (raced \/ payer[r].met)

\* The request fails; or the ledger entry of a creation does, in the database: what the
\* code then reports as created has been rolled back with it.
WriteFails(r) ==
  /\ r \in AtWork
  /\ payer' = [payer EXCEPT ![r] = NoPayer]
  /\ UNCHANGED <<honorarium, raced>>

HonorariaNext ==
  \E r \in Payers :
    \/ \E p \in Payments, a \in Amounts, k \in Kinds \ {"absent"} :
         CreateHonorarium(r, p, a, k) \/ EditHonorarium(r, p, a, k)
    \/ WriteRow(r) \/ WriteFails(r)

HonorariaSpec == HonorariaInit /\ [][HonorariaNext]_honorariaVars

----------------------------------------------------------------------------
\* The year's honoraria stay below the hard block, and once they reach the T4A
\* threshold one of them is flagged for a slip, through creations that overlap and
\* edits that move amounts, types and years; only an edit that overlaps another write
\* may break either, since it locks nothing (Honorarium.clean, create_honorarium).
CeilingHolds ==
  ~raced =>
    /\ Ytd(Counted) < HardBlock
    /\ Ytd(Counted) >= T4A => \E p \in Counted : honorarium[p].t4a
=============================================================================
