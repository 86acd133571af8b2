-------------------------------- MODULE Tax --------------------------------
(***************************************************************************)
(* The statutory deductions of one employee for one month                  *)
(* (internal/service/tax): pension, housing fund, insurance and PAYE of    *)
(* Nigeria, and SSNIT and PAYE of Ghana.  Amounts are naturals of any      *)
(* unit; every division rounds down, as the code's integer division does.  *)
(***************************************************************************)
EXTENDS Integers, Sequences, FiniteSetsExt, Functions

CONSTANTS
    NigerianBrackets, GhanaianBrackets,  \* [ceiling, permille], in order; the top one has ceiling 0
    MinimumWage,    \* up to which Nigeria takes no PAYE
    MaxRentRelief,
    SsnitCap        \* the highest basic pay that Ghana's pension counts

TaxBrackets == Seq([ceiling : Nat, permille : 0 .. 1000])

ASSUME TaxAssumption ==
    /\ \A brackets \in {NigerianBrackets, GhanaianBrackets} :
           /\ brackets \in TaxBrackets
           /\ \A i \in DOMAIN brackets :
                  (brackets[i].ceiling = 0) = (i = Len(brackets))
           /\ \A i, j \in 1 .. Len(brackets) - 1 : i < j => brackets[i].ceiling < brackets[j].ceiling
    /\ {MinimumWage, MaxRentRelief, SsnitCap} \subseteq Nat

Least(a, b) == IF a < b THEN a ELSE b
Only(condition, amount) == IF condition THEN amount ELSE 0

Floor(brackets, i) == IF i = 1 THEN 0 ELSE brackets[i - 1].ceiling

\* (mutant) The bracket that the income ends in takes all of it.
TaxableIn_All(brackets, income, i) ==
    IF income <= Floor(brackets, i) THEN 0
    ELSE IF brackets[i].ceiling = 0 \/ income <= brackets[i].ceiling THEN income
    ELSE brackets[i].ceiling - Floor(brackets, i)

\* What of the income lies in bracket i.
TaxableIn(brackets, income, i) ==
    IF income <= Floor(brackets, i) THEN 0
    ELSE IF brackets[i].ceiling = 0 \/ income <= brackets[i].ceiling
         THEN income - Floor(brackets, i)
         ELSE brackets[i].ceiling - Floor(brackets, i)

ApplyBrackets(brackets, income) ==
    SumFunction([i \in DOMAIN brackets |->
                    (TaxableIn(brackets, income, i) * brackets[i].permille) \div 1000])

\* calculateMonthlyPAYE of Nigeria: the annual income that is taxed, and the tax of a month.
NigerianTaxable(gross, pension, nhf, rent) ==
    LET relief == Least((rent * 20) \div 100, MaxRentRelief)
        taxable == 12 * gross - 12 * pension - 12 * nhf - relief
    IN Only(gross > MinimumWage /\ taxable > 0, taxable)

\* calculateMonthlyPAYE of Ghana.
GhanaianTaxable(gross, ssnit) == Only(gross > ssnit, 12 * (gross - ssnit))

MonthlyTax(brackets, taxable) == ApplyBrackets(brackets, taxable) \div 12

EmployeePension(base) == (base * 8) \div 100
EmployerPension(base) == (base * 10) \div 100
NHF(basic) == (basic * 25) \div 1000
NSITF(gross) == gross \div 100

\* calculateEmployeePension, calculateEmployerPension and calculateTier2Pension of Ghana.
Ssnit(basic, permille) == (Least(basic, SsnitCap) * permille) \div 1000

\* Input: the pay by kind, the annual rent and the flags of the business that are on.
Nigeria(in) ==
    LET base == in.basic + in.housing + in.transport
        pension == Only("pension" \in in.on, EmployeePension(base))
        nhf == Only("nhf" \in in.on, NHF(in.basic))
        taxable == Only("paye" \in in.on, NigerianTaxable(in.gross, pension, nhf, in.rent))
    IN [paye |-> MonthlyTax(NigerianBrackets, taxable), taxable |-> taxable,
        pension |-> pension, nhf |-> nhf,
        employerPension |-> Only("pension" \in in.on, EmployerPension(base)),
        nsitf |-> Only("nsitf" \in in.on, NSITF(in.gross))]

\* The income that PAYE is taken of is reduced by the 5.5%, not by the 5% of the second tier,
\* which the result adds to the pension of the employee.
Ghana(in) ==
    LET ssnit == Only("pension" \in in.on, Ssnit(in.basic, 55))
        taxable == Only("paye" \in in.on, GhanaianTaxable(in.gross, ssnit))
    IN [paye |-> MonthlyTax(GhanaianBrackets, taxable), taxable |-> taxable,
        pension |-> ssnit + Only("pension" \in in.on, Ssnit(in.basic, 50)), nhf |-> 0,
        employerPension |-> Only("pension" \in in.on, Ssnit(in.basic, 130)),
        nsitf |-> 0]

CalculateForCountry(currency, in) == IF currency = "GHS" THEN Ghana(in) ELSE Nigeria(in)

EmployerCosts(result) == result.employerPension + result.nsitf
=============================================================================
