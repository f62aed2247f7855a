--------------------------- MODULE AbstractLedger ---------------------------
(***************************************************************************)
(* What the general ledger promises (docs/rules/accounting.md): an entry   *)
(* is entered once, posted once and reversed once, posting it and adding   *)
(* its lines to the balances are one step, and a reversal enters the       *)
(* opposite entry in the step that marks the original.  GeneralLedger      *)
(* implements it when no two requests in flight name the same entry.       *)
(***************************************************************************)
EXTENDS Integers

CONSTANTS Accounts, Dates, Today, Entries, NoEntry, Amounts

VARIABLES entry, ledger

Lines == UNION {[A -> Amounts] : A \in SUBSET Accounts}

Init ==
    /\ \A e \in Entries : entry[e].status = "absent"
    /\ ledger = [r \in Accounts \X Dates |-> 0]

Entered(l, d, o) == [status |-> "pending", lines |-> l, date |-> d, corrects |-> o]

\* A new entry arrives, pending.
Enter(e) ==
    /\ entry[e].status = "absent"
    /\ entry' = [entry EXCEPT ![e] = Entered(entry'[e].lines, entry'[e].date, NoEntry)]
    /\ entry'[e].lines \in Lines /\ entry'[e].date \in Dates
    /\ UNCHANGED ledger

\* An entry's lines join the balances.
Book(e) ==
    LET x == entry[e] IN
    /\ x.status = "pending"
    /\ entry' = [entry EXCEPT ![e].status = "posted"]
    /\ ledger' = [r \in Accounts \X Dates |->
                    IF r[1] \in DOMAIN x.lines /\ r[2] = x.date
                    THEN ledger[r] + x.lines[r[1]] ELSE ledger[r]]

\* A booked entry is undone by entering its opposite.
Undo(e, c) ==
    LET l == entry[e].lines IN
    /\ entry[e].status = "posted" /\ entry[c].status = "absent"
    /\ entry' = [entry EXCEPT ![e].status = "reversed",
                              ![c] = Entered([a \in DOMAIN l |-> -l[a]], Today, e)]
    /\ UNCHANGED ledger

Next == \E e \in Entries : Enter(e) \/ Book(e) \/ \E c \in Entries : Undo(e, c)

Spec == Init /\ [][Next]_<<entry, ledger>>

=============================================================================
