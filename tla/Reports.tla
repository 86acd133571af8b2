------------------------------ MODULE Reports ------------------------------
(***************************************************************************)
(* What is made of a stored payroll run for those outside                  *)
(* (internal/service/report): the schedules for the tax office, the        *)
(* pension and housing funds and the bank, the register of the run, and    *)
(* the payslips.  A report is the set of its rows.  Employees are never    *)
(* deleted, so that each entry has one.                                    *)
(***************************************************************************)
EXTENDS Payslip

FindAllDetails(entry, type) == SelectSeq(entry.lines, LAMBDA line : line.type = type)

\* findDetail and detailAmount, of a statutory deduction.
FindDetails(lines, name) ==
    {i \in DOMAIN lines : lines[i].type = "statutory_deduction" /\ lines[i].name = name}
DetailAmount(entry, name) ==
    LET found == FindDetails(entry.lines, name)
    IN IF found = {} THEN 0 ELSE entry.lines[Min(found)].amount

GeneratePAYEReport(run) ==
    {[emp |-> e.emp, gross |-> e.gross, paye |-> DetailAmount(e, "PAYE")] : e \in run.entries}

GeneratePensionSchedule(run) ==
    {[emp |-> e.emp, employee |-> DetailAmount(e, "pension"), employer |-> e.employerPension,
      total |-> DetailAmount(e, "pension") + e.employerPension] : e \in run.entries}

GenerateNHFSchedule(run) ==
    {row \in {[emp |-> e.emp, nhf |-> DetailAmount(e, "NHF")] : e \in run.entries} : row.nhf # 0}

\* The money goes to the accounts that the employees have now, not when the run was calculated.
GenerateBankSchedule(run, accounts) ==
    {[emp |-> e.emp, bank |-> accounts[e.emp], net |-> e.net] : e \in run.entries}

\* The register has no column for bonuses, and takes what is not statutory for custom.
RegisterRow(e) ==
    LET statutory == DetailAmount(e, "PAYE") + DetailAmount(e, "pension") + DetailAmount(e, "NHF")
    IN [emp |-> e.emp, gross |-> e.gross, paye |-> DetailAmount(e, "PAYE"),
        pension |-> DetailAmount(e, "pension"), employerPension |-> e.employerPension,
        nhf |-> DetailAmount(e, "NHF"),
        custom |-> Only(e.deductions > statutory, e.deductions - statutory),
        deductions |-> e.deductions, net |-> e.net, nsitf |-> e.nsitf,
        cost |-> e.gross + e.employerCost]

GeneratePayrollSummary(run) ==
    LET rows == {RegisterRow(e) : e \in run.entries}
    IN [rows |-> rows,
        totals |-> [column \in {"gross", "paye", "pension", "employerPension", "nhf", "custom",
                                "deductions", "net", "nsitf", "cost"} |-> TotalOf(rows, column)]]

\* Bonuses are in no section, though they are in the net pay.
GeneratePayslip(e) ==
    [earnings |-> FindAllDetails(e, "earning"), gross |-> e.gross,
     deductions |-> FindAllDetails(e, "deduction") \o FindAllDetails(e, "statutory_deduction"),
     total |-> e.deductions, net |-> e.net,
     costs |-> FindAllDetails(e, "employer_cost"), cost |-> e.gross + e.employerCost]

GenerateAllPayslips(run) == {[emp |-> e.emp, payslip |-> GeneratePayslip(e)] : e \in run.entries}
=============================================================================
