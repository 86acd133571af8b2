------------------------------ MODULE Payslip ------------------------------
(***************************************************************************)
(* What one employee is paid (calculateEmployeeEntry in                    *)
(* internal/service/payroll_calculation.go): the sums of an entry, and     *)
(* beside them the lines that a payslip shows.  The code keeps the two     *)
(* apart, adding to a sum and appending a line at each item.               *)
(***************************************************************************)
EXTENDS Tax

Amounts(items) == [i \in DOMAIN items |-> items[i].amount]
TotalOf(rows, column) == SumFunction([row \in rows |-> row[column]])

Line(type, name, amount) == [type |-> type, name |-> name, amount |-> amount]
LineIfAny(type, name, amount) == IF amount > 0 THEN <<Line(type, name, amount)>> ELSE <<>>
IfAny(amount) == Only(amount > 0, amount)

\* Of several components of a type the last one counts, but all of type other.
PayOfType(components, type) ==
    LET at == {i \in DOMAIN components : components[i].type = type}
    IN IF at = {} THEN 0 ELSE components[Max(at)].amount

\* Without a component of type basic, the first one that is called basic pay.
BasicPay(components) ==
    LET named == {i \in DOMAIN components : components[i].name = "basic"}
    IN IF PayOfType(components, "basic") # 0 THEN PayOfType(components, "basic")
       ELSE IF named = {} THEN 0 ELSE components[Min(named)].amount

RuleAmount(rule, gross, basic) ==
    IF rule.type = "flat" THEN rule.value
    ELSE ((IF rule.basis = "basic_pay" /\ basic > 0 THEN basic ELSE gross) * rule.value) \div 100

\* The last repayment of a loan is what remains of it.
Repayment(loan) == Least(loan.monthly, loan.remaining)

\* An adjustment adds to the gross pay or the bonuses, or is deducted.
AdjustmentType(adjustment) ==
    IF adjustment.amount < 0 THEN "deduction"
    ELSE IF adjustment.type \in {"", "earnings"} THEN "earning" ELSE "bonus"

Adjusted(adjustments, type) ==
    SumFunction([i \in DOMAIN adjustments |->
                    Only(AdjustmentType(adjustments[i]) = type,
                         IF type = "deduction" THEN -adjustments[i].amount
                         ELSE adjustments[i].amount)])

\* (mutant) A deduction is shown with its sign.
AdjustmentLines_Signed(adjustments) ==
    [i \in DOMAIN adjustments |->
        Line(AdjustmentType(adjustments[i]), "item", adjustments[i].amount)]

AdjustmentLines(adjustments) ==
    [i \in DOMAIN adjustments |->
        LET amount == adjustments[i].amount
        IN Line(AdjustmentType(adjustments[i]), "item", IF amount < 0 THEN -amount ELSE amount)]

\* calculateEmployeeEntry, of what was read: the business, the employee, the earning
\* components and deduction rules of its cadre and its active loans.
Entry(id, business, rent, components, rules, loans, adjustments) ==
    LET earned == SumFunction(Amounts(components))
        basic == BasicPay(components)
        ruled == [i \in DOMAIN rules |-> RuleAmount(rules[i], earned, basic)]
        tax == CalculateForCountry(business.currency,
                   [basic |-> basic, housing |-> PayOfType(components, "housing"),
                    transport |-> PayOfType(components, "transport"), gross |-> earned,
                    rent |-> rent, on |-> business.on])
        repaid == [i \in DOMAIN loans |-> Repayment(loans[i])]
        gross == earned + Adjusted(adjustments, "earning")
        bonuses == Adjusted(adjustments, "bonus")
        deductions == SumFunction(ruled) + IfAny(tax.paye) + IfAny(tax.pension) + IfAny(tax.nhf)
                          + SumFunction(repaid) + Adjusted(adjustments, "deduction")
    IN [emp |-> id, gross |-> gross, bonuses |-> bonuses, deductions |-> deductions,
        net |-> gross + bonuses - deductions,
        employerCost |-> EmployerCosts(tax),
        taxable |-> tax.taxable, paye |-> tax.paye,
        employerPension |-> tax.employerPension, nsitf |-> tax.nsitf,
        lines |-> [i \in DOMAIN components |->
                      Line("earning", components[i].name, components[i].amount)]
                  \o [i \in DOMAIN ruled |-> Line("deduction", rules[i].name, ruled[i])]
                  \o LineIfAny("statutory_deduction", "PAYE", tax.paye)
                  \o LineIfAny("statutory_deduction", "pension", tax.pension)
                  \o LineIfAny("statutory_deduction", "NHF", tax.nhf)
                  \o LineIfAny("employer_cost", "pension", tax.employerPension)
                  \o LineIfAny("employer_cost", "NSITF", tax.nsitf)
                  \o [i \in DOMAIN repaid |-> Line("deduction", "loan", repaid[i])]
                  \o AdjustmentLines(adjustments)]

\* The run that CalculatePayrollRun assembles of its entries.
RunOf(business, entries) ==
    [business |-> business, status |-> "draft", entries |-> entries,
     gross |-> TotalOf(entries, "gross"), deductions |-> TotalOf(entries, "deductions"),
     net |-> TotalOf(entries, "net"), employerCosts |-> TotalOf(entries, "employerCost"),
     cost |-> TotalOf(entries, "gross") + TotalOf(entries, "employerCost")]
=============================================================================
