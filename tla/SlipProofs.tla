------------------------------ MODULE SlipProofs ------------------------------
(***************************************************************************)
(* Theorems about the payslips of Office, for any tables, requests and     *)
(* faults.  First what the calculation is for any amounts: the lines of an *)
(* entry add up to its sums, the tax is that of the brackets, and the      *)
(* reports come to the sums of the run.  Then that a calculation has such  *)
(* amounts in hand at each step, whatever other calls write meanwhile.     *)
(***************************************************************************)
EXTENDS OfficeProofs, SumTheorems, SequenceTheorems

-----------------------------------------------------------------------------
(* Lists of lines *)

LineTypes == {"earning", "bonus", "deduction", "statutory_deduction", "employer_cost"}
Lines(N) == Seq([type : LineTypes, name : N, amount : Int])

\* The sum of the lines of some types.
SumOfType(lines, types) ==
    SumFunction([i \in DOMAIN lines |-> Only(lines[i].type \in types, lines[i].amount)])

\* What DetailAmount finds under a name, and where it finds nothing.
Tells(lines, name, amount) ==
    /\ \A i \in FindDetails(lines, name) : lines[i].amount = amount
    /\ FindDetails(lines, name) = {} => amount = 0
Silent(lines, name) == FindDetails(lines, name) = {}

\* A list that is made item by item.
LEMMA ListMade ==
    ASSUME NEW S, NEW n \in Nat, NEW f \in [1 .. n -> S]
    PROVE  f \in Seq(S) /\ Len(f) = n /\ DOMAIN f = 1 .. n
BY SeqDef

LEMMA ListJoins ==
    ASSUME NEW S, NEW a \in Seq(S), NEW b \in Seq(S)
    PROVE  /\ a \o b \in Seq(S)
           /\ Len(a) \in Nat /\ Len(b) \in Nat
           /\ DOMAIN a = 1 .. Len(a) /\ DOMAIN b = 1 .. Len(b)
           /\ DOMAIN (a \o b) = 1 .. Len(a) + Len(b)
           /\ \A i \in 1 .. Len(a) : (a \o b)[i] = a[i] /\ a[i] \in S
           /\ \A i \in 1 .. Len(b) : (a \o b)[Len(a) + i] = b[i] /\ b[i] \in S
           /\ \A i \in DOMAIN (a \o b) : i \notin DOMAIN a => i - Len(a) \in DOMAIN b
<1>1. /\ a \o b \in Seq(S) /\ Len(a \o b) = Len(a) + Len(b)
      /\ \A i \in 1 .. Len(a) + Len(b) :
             (a \o b)[i] = IF i <= Len(a) THEN a[i] ELSE b[i - Len(a)]
    BY ConcatProperties
<1>2. /\ Len(a) \in Nat /\ DOMAIN a = 1 .. Len(a) /\ a \in [1 .. Len(a) -> S]
      /\ Len(b) \in Nat /\ DOMAIN b = 1 .. Len(b) /\ b \in [1 .. Len(b) -> S]
    BY LenProperties
<1>3. DOMAIN (a \o b) = 1 .. Len(a) + Len(b)
    BY <1>1, LenProperties
<1>4. PICK m, n, ab : m \in Nat /\ n \in Nat /\ m = Len(a) /\ n = Len(b) /\ ab = a \o b
    BY <1>2
<1>5. /\ \A i \in 1 .. m : ab[i] = a[i] /\ a[i] \in S
      /\ \A i \in 1 .. n : ab[m + i] = b[i] /\ b[i] \in S
      /\ \A i \in 1 .. m + n : i \notin 1 .. m => i - m \in 1 .. n
    BY <1>1, <1>2, <1>4
<1> QED
    BY <1>1, <1>2, <1>3, <1>4, <1>5

\* The lines of two lists add up to those of the one that joins them.
LEMMA LinesJoin ==
    ASSUME NEW N, NEW a \in Lines(N), NEW b \in Lines(N)
    PROVE  /\ a \o b \in Lines(N)
           /\ \A types : /\ SumOfType(a, types) \in Int
                         /\ SumOfType(b, types) \in Int
                         /\ SumOfType(a \o b, types) = SumOfType(a, types) + SumOfType(b, types)
<1>0. PICK S : S = [type : LineTypes, name : N, amount : Int]
    OBVIOUS
<1> a \in Seq(S) /\ b \in Seq(S)
    BY <1>0 DEF Lines
<1>a. PICK m, n, ab : m = Len(a) /\ n = Len(b) /\ ab = a \o b
    OBVIOUS
<1>1. /\ m \in Nat /\ n \in Nat
      /\ ab \in Seq(S)
      /\ DOMAIN a = 1 .. m /\ DOMAIN b = 1 .. n /\ DOMAIN ab = 1 .. m + n
      /\ \A i \in 1 .. m : ab[i] = a[i] /\ a[i] \in S
      /\ \A i \in 1 .. n : ab[m + i] = b[i] /\ b[i] \in S
    BY <1>a, ListJoins
<1>2. ASSUME NEW types
      PROVE  /\ SumOfType(a, types) \in Int
             /\ SumOfType(b, types) \in Int
             /\ SumOfType(ab, types) = SumOfType(a, types) + SumOfType(b, types)
    <2>0. /\ m \in Nat /\ n \in Nat
          /\ \A i \in 1 .. m : ab[i] = a[i] /\ a[i].amount \in Int
          /\ \A i \in 1 .. n : ab[m + i] = b[i] /\ b[i].amount \in Int
        BY <1>0, <1>1
    <2>1. PICK f, g, h :
              /\ f = [i \in 1 .. m |-> Only(a[i].type \in types, a[i].amount)]
              /\ g = [i \in 1 .. n |-> Only(b[i].type \in types, b[i].amount)]
              /\ h = [i \in 1 .. m + n |-> Only(ab[i].type \in types, ab[i].amount)]
        OBVIOUS
    <2>2. /\ SumOfType(a, types) = SumFunctionOnSet(f, 1 .. m)
          /\ SumOfType(b, types) = SumFunctionOnSet(g, 1 .. n)
          /\ SumOfType(ab, types) = SumFunctionOnSet(h, 1 .. m + n)
        BY <1>1, <2>1 DEF SumOfType, SumFunction
    <2>3. /\ \A i \in 1 .. m : f[i] \in Int /\ h[i] = f[i]
          /\ \A i \in 1 .. n : g[i] \in Int /\ h[m + i] = g[i]
        BY <2>0, <2>1 DEF Only
    <2>4. IsFiniteSet(1 .. m) /\ IsFiniteSet(1 .. n)
        <3>1. 1 \in Int /\ m \in Int /\ n \in Int
            BY <2>0
        <3> QED
            BY ONLY <3>1, FS_Interval
    <2>5. SumFunctionOnSet(f, 1 .. m) \in Int /\ SumFunctionOnSet(g, 1 .. n) \in Int
        BY <2>3, <2>4, SumIsInt
    <2>6. SumFunctionOnSet(h, 1 .. m + n) = SumFunctionOnSet(f, 1 .. m) + SumFunctionOnSet(g, 1 .. n)
        <3>1. m \in Nat /\ n \in Nat
            BY <2>0
        <3>2. \A i \in 1 .. m : f[i] \in Int /\ h[i] = f[i]
            BY <2>3
        <3>3. \A i \in 1 .. n : g[i] \in Int /\ h[m + i] = g[i]
            BY <2>3
        <3> QED
            BY ONLY <3>1, <3>2, <3>3, SumOfBoth
    <2> QED
        BY <2>2, <2>5, <2>6
<1> QED
    BY <1>0, <1>a, <1>1, <1>2 DEF Lines

\* What one of two lists tells and the other does not mention, both together tell.
LEMMA TellsJoin ==
    ASSUME NEW N, NEW a \in Lines(N), NEW b \in Lines(N), NEW name, NEW amount
    PROVE  /\ Tells(a, name, amount) /\ Silent(b, name) => Tells(a \o b, name, amount)
           /\ Silent(a, name) /\ Tells(b, name, amount) => Tells(a \o b, name, amount)
           /\ Silent(a, name) /\ Silent(b, name) => Silent(a \o b, name)
<1>0. PICK S : S = [type : LineTypes, name : N, amount : Int]
    OBVIOUS
<1> a \in Seq(S) /\ b \in Seq(S)
    BY <1>0 DEF Lines
<1>a. PICK m, n, ab : m = Len(a) /\ n = Len(b) /\ ab = a \o b
    OBVIOUS
<1>1. /\ m \in Nat /\ n \in Nat
      /\ DOMAIN a = 1 .. m /\ DOMAIN b = 1 .. n /\ DOMAIN ab = 1 .. m + n
      /\ \A i \in 1 .. m : ab[i] = a[i]
      /\ \A i \in 1 .. n : ab[m + i] = b[i]
    BY <1>a, ListJoins
<1>2. \A i \in 1 .. m + n : i \in 1 .. m \/ \E j \in 1 .. n : i = m + j
    <2> SUFFICES ASSUME NEW i \in 1 .. m + n, i \notin 1 .. m PROVE \E j \in 1 .. n : i = m + j
        OBVIOUS
    <2>1. i - m \in 1 .. n /\ i = m + (i - m)
        BY <1>1
    <2> QED
        BY <2>1
<1>3. \A i \in 1 .. m + n :
          \/ i \in 1 .. m /\ ab[i] = a[i]
          \/ \E j \in 1 .. n : i = m + j /\ ab[i] = b[j]
    BY <1>1, <1>2
<1>4. ASSUME NEW i \in FindDetails(ab, name)
      PROVE  \/ i \in FindDetails(a, name) /\ ab[i] = a[i]
             \/ \E j \in FindDetails(b, name) : ab[i] = b[j]
    <2>1. i \in 1 .. m + n /\ ab[i].type = "statutory_deduction" /\ ab[i].name = name
        BY <1>1 DEF FindDetails
    <2>2. CASE i \in 1 .. m /\ ab[i] = a[i]
        BY <1>1, <2>1, <2>2 DEF FindDetails
    <2>3. CASE \E j \in 1 .. n : i = m + j /\ ab[i] = b[j]
        BY <1>1, <2>1, <2>3 DEF FindDetails
    <2> QED
        BY <1>3, <2>1, <2>2, <2>3
<1>5. /\ \A i \in FindDetails(a, name) : i \in FindDetails(ab, name)
      /\ \A j \in FindDetails(b, name) : m + j \in FindDetails(ab, name)
    BY <1>1 DEF FindDetails
<1> QED
    BY <1>a, <1>1, <1>4, <1>5 DEF Tells, Silent

\* What is told is what is found.
LEMMA TellsFound ==
    ASSUME NEW N, NEW e, e.lines \in Lines(N), NEW name, NEW amount, Tells(e.lines, name, amount)
    PROVE  DetailAmount(e, name) = amount
<1>1. PICK found : found = FindDetails(e.lines, name)
    OBVIOUS
<1>2. CASE found = {}
    BY <1>1, <1>2 DEF Tells, DetailAmount
<1>3. CASE found # {}
    <2>1. found \subseteq Nat
        BY <1>1, LenProperties DEF FindDetails, Lines
    <2>2. \E k \in found : \A j \in found : k <= j
        BY <1>3, <2>1, LeastNumber
    <2>3. Min(found) \in found
        BY <2>2 DEF Min
    <2> QED
        BY <1>1, <1>3, <2>3 DEF Tells, DetailAmount
<1> QED
    BY <1>2, <1>3

-----------------------------------------------------------------------------
(* Taxes *)

Country == {NigerianBrackets, GhanaianBrackets}

\* The brackets follow one another.
LEMMA BracketsInOrder ==
    ASSUME NEW brackets \in Country
    PROVE  /\ brackets \in TaxBrackets /\ Len(brackets) \in Nat
           /\ DOMAIN brackets = 1 .. Len(brackets)
           /\ \A i \in DOMAIN brackets :
                  /\ brackets[i].ceiling \in Nat /\ brackets[i].permille \in Nat
                  /\ Floor(brackets, i) \in Nat
                  /\ brackets[i].ceiling # 0 => Floor(brackets, i) <= brackets[i].ceiling
<1>1. /\ brackets \in TaxBrackets
      /\ \A i \in DOMAIN brackets : (brackets[i].ceiling = 0) = (i = Len(brackets))
      /\ \A i, j \in 1 .. Len(brackets) - 1 : i < j => brackets[i].ceiling < brackets[j].ceiling
    BY TaxAssumption DEF Country
<1>2. PICK S : S = [ceiling : Nat, permille : 0 .. 1000]
    OBVIOUS
<1>3. brackets \in Seq(S)
    BY <1>1, <1>2 DEF TaxBrackets
<1>4. /\ Len(brackets) \in Nat /\ DOMAIN brackets = 1 .. Len(brackets)
      /\ brackets \in [1 .. Len(brackets) -> S]
    BY <1>3, LenProperties
<1>5. PICK n \in Nat : n = Len(brackets)
    BY <1>4
<1>6. \A i \in 1 .. n : brackets[i].ceiling \in Nat /\ brackets[i].permille \in Nat
    <2> SUFFICES ASSUME NEW i \in 1 .. n
                 PROVE  brackets[i].ceiling \in Nat /\ brackets[i].permille \in Nat
        OBVIOUS
    <2>1. PICK b : b = brackets[i] /\ b \in S
        BY <1>4, <1>5
    <2>2. b.ceiling \in Nat /\ b.permille \in 0 .. 1000
        BY <1>2, <2>1
    <2>3. b.permille \in Nat
        BY <2>2
    <2> QED
        BY <2>1, <2>2, <2>3
<1>7. ASSUME NEW i \in 1 .. n
      PROVE  /\ Floor(brackets, i) \in Nat
             /\ brackets[i].ceiling # 0 => Floor(brackets, i) <= brackets[i].ceiling
    <2>1. CASE i = 1
        BY <1>6, <2>1 DEF Floor
    <2>2. CASE i # 1
        <3>1. i - 1 \in 1 .. n /\ i - 1 < i
            BY <2>2
        <3>2. Floor(brackets, i) = brackets[i - 1].ceiling
            BY <2>2 DEF Floor
        <3>3. brackets[i].ceiling # 0 => i # n
            BY <1>1, <1>4, <1>5
        <3>4. i # n => brackets[i - 1].ceiling < brackets[i].ceiling
            <4>1. i # n => i \in 1 .. n - 1 /\ i - 1 \in 1 .. n - 1
                BY <2>2
            <4> QED
                BY <1>1, <1>5, <3>1, <4>1
        <3> QED
            BY <1>6, <3>1, <3>2, <3>3, <3>4
    <2> QED
        BY <2>1, <2>2
<1> QED
    BY <1>1, <1>4, <1>5, <1>6, <1>7

LEMMA TaxableIsNat ==
    ASSUME NEW brackets \in Country, NEW income \in Nat, NEW i \in DOMAIN brackets
    PROVE  TaxableIn(brackets, income, i) \in Nat
BY BracketsInOrder DEF TaxableIn

LEMMA TimesIsNat ==
    ASSUME NEW a \in Nat, NEW b \in Nat
    PROVE  a * b \in Nat /\ (a * b) \div 1000 \in Nat
OBVIOUS

\* The tax of a month is not negative.
LEMMA MonthlyTaxIsNat ==
    ASSUME NEW brackets \in Country, NEW income \in Nat
    PROVE  /\ ApplyBrackets(brackets, income) \in Nat
           /\ MonthlyTax(brackets, income) \in Nat
<1>1. PICK f : f = [i \in DOMAIN brackets |->
                       (TaxableIn(brackets, income, i) * brackets[i].permille) \div 1000]
    OBVIOUS
<1>2. IsFiniteSet(DOMAIN brackets)
    BY BracketsInOrder, FS_Interval
<1>3. \A i \in DOMAIN brackets : f[i] \in Nat
    <2> SUFFICES ASSUME NEW i \in DOMAIN brackets PROVE f[i] \in Nat
        OBVIOUS
    <2>1. PICK a, b : a = TaxableIn(brackets, income, i) /\ b = brackets[i].permille
        OBVIOUS
    <2>2. a \in Nat /\ b \in Nat
        BY <2>1, BracketsInOrder, TaxableIsNat
    <2>3. f[i] = (a * b) \div 1000
        BY <1>1, <2>1
    <2> QED
        BY <2>2, <2>3, TimesIsNat
<1>4. SumFunctionOnSet(f, DOMAIN brackets) \in Nat
    BY <1>2, <1>3, SumIsNat
<1>5. ApplyBrackets(brackets, income) \in Nat
    BY <1>1, <1>4 DEF ApplyBrackets, SumFunction
<1> QED
    BY <1>5 DEF MonthlyTax

Earned(in) == {in.basic, in.housing, in.transport, in.gross}

\* Whatever is earned, there is no negative income to be taxed.
LEMMA TaxableIncome ==
    ASSUME NEW in, NEW currency, Earned(in) \subseteq Int, in.rent \in Int
    PROVE  LET tax == CalculateForCountry(currency, in)
           IN /\ tax.taxable \in Nat /\ tax.paye \in Nat
              /\ {tax.pension, tax.nhf, tax.employerPension, tax.nsitf} \subseteq Int
              /\ currency # "GHS" => tax.paye = MonthlyTax(NigerianBrackets, tax.taxable)
<1> USE DEF Earned
<1>1. MaxRentRelief \in Int /\ SsnitCap \in Int
    BY TaxAssumption
<1>2. ASSUME NEW pension \in Int, NEW nhf \in Int
      PROVE  NigerianTaxable(in.gross, pension, nhf, in.rent) \in Nat
    BY <1>1 DEF NigerianTaxable, Least, Only
<1>3. \A ssnit \in Int : GhanaianTaxable(in.gross, ssnit) \in Nat
    BY DEF GhanaianTaxable, Only
<1>4. \A permille \in {50, 55, 130} : Ssnit(in.basic, permille) \in Int
    BY <1>1 DEF Ssnit, Least
<1>5. CASE currency = "GHS"
    <2>1. PICK tax : tax = Ghana(in)
        OBVIOUS
    <2>2. /\ tax.taxable \in Nat /\ {tax.pension, tax.nhf, tax.employerPension, tax.nsitf} \subseteq Int
          /\ tax.paye = MonthlyTax(GhanaianBrackets, tax.taxable)
        BY <1>3, <1>4, <2>1 DEF Ghana, Only
    <2> QED
        BY <1>5, <2>1, <2>2, MonthlyTaxIsNat DEF CalculateForCountry, Country
<1>6. CASE currency # "GHS"
    <2>1. PICK tax : tax = Nigeria(in)
        OBVIOUS
    <2>2. PICK base \in Int : base = in.basic + in.housing + in.transport
        OBVIOUS
    <2>3. /\ EmployeePension(base) \in Int /\ EmployerPension(base) \in Int
          /\ NHF(in.basic) \in Int /\ NSITF(in.gross) \in Int
        BY DEF EmployeePension, EmployerPension, NHF, NSITF
    <2>4. PICK pension, nhf, taxable :
              /\ pension = Only("pension" \in in.on, EmployeePension(base))
              /\ nhf = Only("nhf" \in in.on, NHF(in.basic))
              /\ taxable = Only("paye" \in in.on, NigerianTaxable(in.gross, pension, nhf, in.rent))
        OBVIOUS
    <2>5. pension \in Int /\ nhf \in Int
        BY <2>3, <2>4 DEF Only
    <2>6. taxable \in Nat
        BY <1>2, <2>4, <2>5 DEF Only
    <2>7. /\ tax.pension = pension /\ tax.nhf = nhf /\ tax.taxable = taxable
          /\ tax.employerPension = Only("pension" \in in.on, EmployerPension(base))
          /\ tax.nsitf = Only("nsitf" \in in.on, NSITF(in.gross))
          /\ tax.paye = MonthlyTax(NigerianBrackets, tax.taxable)
        BY <2>1, <2>2, <2>4 DEF Nigeria
    <2>8. tax.employerPension \in Int /\ tax.nsitf \in Int
        BY <2>3, <2>7 DEF Only
    <2> QED
        BY <1>6, <2>1, <2>5, <2>6, <2>7, <2>8, MonthlyTaxIsNat DEF CalculateForCountry, Country
<1> QED
    BY <1>5, <1>6

\* Of naturals every contribution is one.
LEMMA Contributions ==
    ASSUME NEW in, NEW currency, Earned(in) \subseteq Nat
    PROVE  LET tax == CalculateForCountry(currency, in)
           IN {tax.pension, tax.nhf, tax.employerPension, tax.nsitf} \subseteq Nat
<1> USE DEF Earned
<1>1. SsnitCap \in Nat
    BY TaxAssumption
<1>2. \A permille \in {50, 55, 130} : Ssnit(in.basic, permille) \in Nat
    BY <1>1 DEF Ssnit, Least
<1>3. CASE currency = "GHS"
    <2>1. PICK tax : tax = Ghana(in)
        OBVIOUS
    <2>2. {tax.pension, tax.nhf, tax.employerPension, tax.nsitf} \subseteq Nat
        BY <1>2, <2>1 DEF Ghana, Only
    <2> QED
        BY <1>3, <2>1, <2>2 DEF CalculateForCountry
<1>4. CASE currency # "GHS"
    <2>1. PICK tax : tax = Nigeria(in)
        OBVIOUS
    <2>2. PICK base \in Nat : base = in.basic + in.housing + in.transport
        OBVIOUS
    <2>3. /\ EmployeePension(base) \in Nat /\ EmployerPension(base) \in Nat
          /\ NHF(in.basic) \in Nat /\ NSITF(in.gross) \in Nat
        BY DEF EmployeePension, EmployerPension, NHF, NSITF
    <2>4. {tax.pension, tax.nhf, tax.employerPension, tax.nsitf} \subseteq Nat
        BY <2>1, <2>2, <2>3 DEF Nigeria, Only
    <2> QED
        BY <1>4, <2>1, <2>4 DEF CalculateForCountry
<1> QED
    BY <1>3, <1>4

\* Each bracket is as many units as it takes of the income, and what the rounding loses of each
\* bracket and of the month is less than a unit of the tax.
LEMMA UnitsOfBracket ==
    ASSUME NEW income \in Nat, NEW i \in DOMAIN NigerianBrackets
    PROVE  Cardinality(UnitsIn(i, income)) = TaxableIn(NigerianBrackets, income, i)
<1>1. NigerianBrackets \in Country
    BY DEF Country
<1>2. PICK floor, ceiling : floor = Floor(NigerianBrackets, i) /\ ceiling = NigerianBrackets[i].ceiling
    OBVIOUS
<1>3. floor \in Nat /\ ceiling \in Nat /\ (ceiling # 0 => floor <= ceiling)
    BY <1>1, <1>2, BracketsInOrder
<1>4. PICK top : top = IF ceiling = 0 THEN income ELSE Least(income, ceiling)
    OBVIOUS
<1>5. top \in Nat
    BY <1>3, <1>4 DEF Least
<1>6. UnitsIn(i, income) = (floor + 1) .. top
    BY <1>2, <1>4 DEF UnitsIn
<1>7. PICK from \in Int : from = floor + 1
    BY <1>3
<1>8. Cardinality(from .. top) = IF from > top THEN 0 ELSE top - from + 1
    <2>1. top \in Int
        BY <1>5
    <2> QED
        BY <1>7, <2>1, FS_Interval
<1> QED
    BY <1>2, <1>3, <1>4, <1>5, <1>6, <1>7, <1>8 DEF TaxableIn, Least

\* The tax of a month is that of each unit of the income, to the rounding.
LEMMA TaxedUnits ==
    ASSUME NEW e, e.taxable \in Nat, e.paye = MonthlyTax(NigerianBrackets, e.taxable)
    PROVE  TaxedByUnit(e)
<1>1. NigerianBrackets \in Country
    BY DEF Country
<1>2. PICK S, n : S = DOMAIN NigerianBrackets /\ n = Len(NigerianBrackets)
    OBVIOUS
<1>3. S = 1 .. n /\ n \in Nat /\ IsFiniteSet(S) /\ Cardinality(S) = n
    <2>1. S = 1 .. n /\ n \in Nat
        BY <1>1, <1>2, BracketsInOrder
    <2>2. IsFiniteSet(1 .. n) /\ Cardinality(1 .. n) = IF 1 > n THEN 0 ELSE n - 1 + 1
        BY <2>1, FS_Interval
    <2> QED
        BY <2>1, <2>2
<1>4. PICK f, g :
          /\ f = [i \in S |-> Cardinality(UnitsIn(i, e.taxable)) * NigerianBrackets[i].permille]
          /\ g = [i \in S |-> (TaxableIn(NigerianBrackets, e.taxable, i)
                                   * NigerianBrackets[i].permille) \div 1000]
    OBVIOUS
<1>5. ASSUME NEW i \in S
      PROVE  f[i] \in Int /\ g[i] \in Int /\ 1000 * g[i] <= f[i] /\ f[i] < 1000 * g[i] + 1000
    <2>1. PICK a, b : a = TaxableIn(NigerianBrackets, e.taxable, i) /\ b = NigerianBrackets[i].permille
        OBVIOUS
    <2>2. a \in Nat /\ b \in Nat
        BY <1>1, <1>2, <2>1, BracketsInOrder, TaxableIsNat
    <2>3. PICK x \in Nat : x = a * b
        BY <2>2
    <2>4. f[i] = x /\ g[i] = x \div 1000
        BY <1>2, <1>4, <2>1, <2>3, UnitsOfBracket
    <2> QED
        BY <2>3, <2>4
<1>6. PICK F, G : F = SumFunctionOnSet(f, S) /\ G = SumFunctionOnSet(g, S)
    OBVIOUS
<1>7. 1000 * G <= F /\ F <= 1000 * G + (1000 - 1) * n
    <2>1. IsFiniteSet(S) /\ 1000 \in Nat \ {0}
        BY <1>3
    <2>2. \A x \in S : f[x] \in Int /\ g[x] \in Int /\ 1000 * g[x] <= f[x] /\ f[x] < 1000 * g[x] + 1000
        BY <1>5
    <2>3. /\ 1000 * SumFunctionOnSet(g, S) <= SumFunctionOnSet(f, S)
          /\ SumFunctionOnSet(f, S) <= 1000 * SumFunctionOnSet(g, S) + (1000 - 1) * Cardinality(S)
        BY ONLY <2>1, <2>2, SumOfRounded
    <2> QED
        BY <1>3, <1>6, <2>3
<1>8. F \in Int /\ G \in Int
    BY <1>3, <1>5, <1>6, SumIsInt
<1>9. e.paye = G \div 12
    BY <1>2, <1>4, <1>6 DEF MonthlyTax, ApplyBrackets, SumFunction
<1>10. PICK paye \in Int : paye = e.paye /\ 12 * paye <= G /\ G <= 12 * paye + 11
    BY <1>8, <1>9
<1>11. 12000 * paye <= F /\ F < 12000 * (paye + 1) + 1000 * n
    BY <1>3, <1>7, <1>8, <1>10
<1>12. F = SumFunction([i \in DOMAIN NigerianBrackets |->
               Cardinality(UnitsIn(i, e.taxable)) * NigerianBrackets[i].permille])
    BY <1>2, <1>4, <1>6 DEF SumFunction
<1> QED
    BY <1>2, <1>10, <1>11, <1>12 DEF TaxedByUnit

-----------------------------------------------------------------------------
(* The parts of a payslip *)

\* Lines of one type that add up to a total.
Listing(N, lines, type, total) ==
    /\ lines \in Lines(N)
    /\ \A types : SumOfType(lines, types) = Only(type \in types, total)
    /\ type # "statutory_deduction" => \A name : Silent(lines, name)

\* Lines of one type, one for each amount.
LEMMA LinesOfType ==
    ASSUME NEW N, NEW n \in Nat, NEW names, NEW amounts \in [1 .. n -> Int],
           \A i \in 1 .. n : names[i] \in N, NEW type \in LineTypes, NEW lines,
           lines = [i \in 1 .. n |-> Line(type, names[i], amounts[i])]
    PROVE  Listing(N, lines, type, SumFunction(amounts))
<1>1. PICK S : S = [type : LineTypes, name : N, amount : Int]
    OBVIOUS
<1>2. \A i \in 1 .. n : Line(type, names[i], amounts[i]) \in S
    BY <1>1 DEF Line
<1>3. lines \in [1 .. n -> S]
    BY <1>2
<1>4. lines \in Lines(N) /\ DOMAIN lines = 1 .. n
    BY <1>1, <1>3, ListMade DEF Lines
<1>5. \A i \in 1 .. n : lines[i].type = type /\ lines[i].amount = amounts[i]
    BY DEF Line
<1>6. IsFiniteSet(1 .. n)
    BY FS_Interval
<1>7. ASSUME NEW types
      PROVE  SumOfType(lines, types) = Only(type \in types, SumFunction(amounts))
    <2>1. PICK f : f = [i \in 1 .. n |-> Only(lines[i].type \in types, lines[i].amount)]
        OBVIOUS
    <2>2. SumOfType(lines, types) = SumFunctionOnSet(f, 1 .. n)
        BY <1>4, <2>1 DEF SumOfType, SumFunction
    <2>3. CASE type \in types
        <3>1. \A i \in 1 .. n : f[i] = amounts[i]
            BY <1>5, <2>1, <2>3 DEF Only
        <3>2. SumFunctionOnSet(f, 1 .. n) = SumFunctionOnSet(amounts, 1 .. n)
            BY <1>6, <3>1, SumSame
        <3> QED
            BY <2>2, <2>3, <3>2 DEF SumFunction, Only
    <2>4. CASE type \notin types
        <3>1. \A i \in 1 .. n : f[i] = 0
            BY <1>5, <2>1, <2>4 DEF Only
        <3> QED
            BY <1>6, <2>2, <2>4, <3>1, SumOfZeros DEF Only
    <2> QED
        BY <2>3, <2>4
<1>8. type # "statutory_deduction" => \A name : Silent(lines, name)
    BY <1>4, <1>5 DEF Silent, FindDetails
<1> QED
    BY <1>4, <1>7, <1>8 DEF Listing

\* A line that is there if its amount is positive.
LEMMA OneLine ==
    ASSUME NEW N, NEW type \in LineTypes, NEW name \in N, NEW amount \in Int, NEW lines,
           lines = LineIfAny(type, name, amount)
    PROVE  /\ Listing(N, lines, type, IfAny(amount))
           /\ \A other : other # name => Silent(lines, other)
           /\ type = "statutory_deduction" => Tells(lines, name, IfAny(amount))
<1>1. PICK S : S = [type : LineTypes, name : N, amount : Int]
    OBVIOUS
<1>2. CASE amount > 0
    <2>1. PICK line : line = Line(type, name, amount)
        OBVIOUS
    <2>2. line \in S /\ lines = <<line>> /\ IfAny(amount) = amount
        BY <1>1, <1>2, <2>1 DEF Line, LineIfAny, IfAny, Only
    <2>3. lines \in Lines(N) /\ DOMAIN lines = 1 .. 1 /\ lines[1] = line
        BY <1>1, <2>2 DEF Lines
    <2>4. ASSUME NEW types
          PROVE  SumOfType(lines, types) = Only(type \in types, amount)
        <3>1. PICK f : f = [i \in 1 .. 1 |-> Only(lines[i].type \in types, lines[i].amount)]
            OBVIOUS
        <3>2. SumOfType(lines, types) = SumFunctionOnSet(f, 1 .. 1)
            BY <2>3, <3>1 DEF SumOfType, SumFunction
        <3>3. f[1] = Only(type \in types, amount) /\ f[1] \in Int
            BY <2>1, <2>3, <3>1 DEF Line, Only
        <3>4. SumFunctionOnSet(f, 1 .. 0 + 1) = f[0 + 1] + SumFunctionOnSet(f, 1 .. 0)
            <4>1. \A i \in 1 .. 0 + 1 : f[i] \in Int
                BY <3>3
            <4> QED
                BY <4>1, SumOfLast
        <3>5. SumFunctionOnSet(f, 1 .. 0) = 0
            BY SumEmpty
        <3>6. 0 + 1 = 1
            OBVIOUS
        <3> QED
            BY <3>2, <3>3, <3>4, <3>5, <3>6
    <2>5. \A other : FindDetails(lines, other) =
              IF type = "statutory_deduction" /\ name = other THEN {1} ELSE {}
        BY <2>1, <2>3 DEF FindDetails, Line
    <2> QED
        BY <2>1, <2>2, <2>3, <2>4, <2>5 DEF Listing, Silent, Tells, Line
<1>3. CASE ~(amount > 0)
    <2>1. lines = <<>> /\ IfAny(amount) = 0
        BY <1>3 DEF LineIfAny, IfAny, Only
    <2>2. lines \in Lines(N) /\ DOMAIN lines = {}
        BY <1>1, <2>1, EmptySeq DEF Lines
    <2>3. \A types : SumOfType(lines, types) = 0
        BY <2>2, SumEmpty DEF SumOfType, SumFunction
    <2>4. \A other : FindDetails(lines, other) = {}
        BY <2>2 DEF FindDetails
    <2> QED
        BY <2>1, <2>2, <2>3, <2>4 DEF Listing, Silent, Tells, Only
<1> QED
    BY <1>2, <1>3

\* The lines of the adjustments, each as positive as it is added or deducted.
LEMMA AdjustmentsShown ==
    ASSUME NEW N, "item" \in N, NEW n \in Nat, NEW adjustments, DOMAIN adjustments = 1 .. n,
           \A i \in 1 .. n : adjustments[i].amount \in Int
    PROVE  /\ AdjustmentLines(adjustments) \in Lines(N)
           /\ \A type \in {"earning", "bonus"} :
                  SumOfType(AdjustmentLines(adjustments), {type}) = Adjusted(adjustments, type)
           /\ SumOfType(AdjustmentLines(adjustments), {"deduction", "statutory_deduction"})
                  = Adjusted(adjustments, "deduction")
           /\ SumOfType(AdjustmentLines(adjustments), {"employer_cost"}) = 0
           /\ \A type \in {"earning", "bonus", "deduction"} : Adjusted(adjustments, type) \in Nat
           /\ \A name : Silent(AdjustmentLines(adjustments), name)
<1>1. PICK S : S = [type : LineTypes, name : N, amount : Int]
    OBVIOUS
<1>2. PICK lines : lines = AdjustmentLines(adjustments)
    OBVIOUS
<1>3. /\ DOMAIN lines = 1 .. n
      /\ \A i \in 1 .. n :
             lines[i] = Line(AdjustmentType(adjustments[i]), "item",
                             IF adjustments[i].amount < 0 THEN -adjustments[i].amount
                             ELSE adjustments[i].amount)
    BY <1>2 DEF AdjustmentLines
<1>4. ASSUME NEW i \in 1 .. n
      PROVE  /\ lines[i] \in S
             /\ lines[i].type = AdjustmentType(adjustments[i])
             /\ lines[i].type \in {"earning", "bonus", "deduction"}
             /\ lines[i].amount \in Nat
             /\ lines[i].amount = IF lines[i].type = "deduction" THEN -adjustments[i].amount
                                  ELSE adjustments[i].amount
    <2>1. PICK a, type : /\ a \in Int /\ a = adjustments[i].amount
                         /\ type = AdjustmentType(adjustments[i])
        OBVIOUS
    <2>2. type \in {"earning", "bonus", "deduction"} /\ (type = "deduction" <=> a < 0)
        BY <2>1 DEF AdjustmentType
    <2>3. PICK line : line = Line(type, "item", IF a < 0 THEN -a ELSE a)
        OBVIOUS
    <2>4. /\ line.type = type /\ line.name = "item"
          /\ line.amount = IF a < 0 THEN -a ELSE a
        BY <2>3 DEF Line
    <2>5. line \in S
        BY <1>1, <2>1, <2>2, <2>3 DEF Line, LineTypes
    <2>6. lines[i] = line
        BY <1>3, <2>1, <2>3
    <2> QED
        BY <2>1, <2>2, <2>4, <2>5, <2>6
<1>5. lines \in Lines(N)
    <2>1. lines \in [1 .. n -> S]
        <3>1. lines = [i \in 1 .. n |-> lines[i]]
            BY <1>2, <1>3 DEF AdjustmentLines
        <3> QED
            BY <1>4, <3>1
    <2> QED
        BY <1>1, <2>1, ListMade DEF Lines
<1>6. IsFiniteSet(1 .. n)
    BY FS_Interval
<1>7. ASSUME NEW type \in {"earning", "bonus", "deduction"}, NEW types,
             \A other \in {"earning", "bonus", "deduction"} : other \in types <=> other = type
      PROVE  /\ SumOfType(lines, types) = Adjusted(adjustments, type)
             /\ Adjusted(adjustments, type) \in Nat
    <2>1. PICK f, g :
              /\ f = [i \in 1 .. n |-> Only(lines[i].type \in types, lines[i].amount)]
              /\ g = [i \in 1 .. n |->
                         Only(AdjustmentType(adjustments[i]) = type,
                              IF type = "deduction" THEN -adjustments[i].amount
                              ELSE adjustments[i].amount)]
        OBVIOUS
    <2>2. \A i \in 1 .. n : f[i] = g[i] /\ f[i] \in Nat
        BY <1>4, <1>7, <2>1 DEF Only
    <2>3. SumFunctionOnSet(f, 1 .. n) = SumFunctionOnSet(g, 1 .. n)
        BY <1>6, <2>2, SumSame
    <2>4. SumFunctionOnSet(f, 1 .. n) \in Nat
        BY <1>6, <2>2, SumIsNat
    <2>5. SumOfType(lines, types) = SumFunctionOnSet(f, 1 .. n)
        BY <1>3, <2>1 DEF SumOfType, SumFunction
    <2>6. Adjusted(adjustments, type) = SumFunctionOnSet(g, 1 .. n)
        BY <2>1 DEF Adjusted, SumFunction
    <2> QED
        BY <2>3, <2>4, <2>5, <2>6
<1>8. SumOfType(lines, {"employer_cost"}) = 0
    <2>1. PICK f : f = [i \in 1 .. n |-> Only(lines[i].type \in {"employer_cost"}, lines[i].amount)]
        OBVIOUS
    <2>2. \A i \in 1 .. n : f[i] = 0
        BY <1>4, <2>1 DEF Only
    <2>3. SumFunctionOnSet(f, 1 .. n) = 0
        BY <1>6, <2>2, SumOfZeros
    <2> QED
        BY <1>3, <2>1, <2>3 DEF SumOfType, SumFunction
<1>9. \A name : Silent(lines, name)
    BY <1>3, <1>4 DEF Silent, FindDetails
<1> QED
    BY <1>2, <1>5, <1>7, <1>8, <1>9

\* The nine lists of an entry, the third, fourth and fifth of which are statutory deductions.
JoinsNine(N, all, a1, a2, a3, a4, a5, a6, a7, a8, a9) ==
    /\ all \in Lines(N)
    /\ \A types : SumOfType(all, types) =
           SumOfType(a1, types) + SumOfType(a2, types) + SumOfType(a3, types)
               + SumOfType(a4, types) + SumOfType(a5, types) + SumOfType(a6, types)
               + SumOfType(a7, types) + SumOfType(a8, types) + SumOfType(a9, types)
    /\ \A name, amount :
           /\ \A a \in {a1, a2, a6, a7, a8, a9} : Silent(a, name)
           /\ \/ Tells(a3, name, amount) /\ Silent(a4, name) /\ Silent(a5, name)
              \/ Silent(a3, name) /\ Tells(a4, name, amount) /\ Silent(a5, name)
              \/ Silent(a3, name) /\ Silent(a4, name) /\ Tells(a5, name, amount)
           => Tells(all, name, amount)

\* What nine lists of lines are when they are joined.
LEMMA NineLists ==
    ASSUME NEW N, NEW a1 \in Lines(N), NEW a2 \in Lines(N), NEW a3 \in Lines(N),
           NEW a4 \in Lines(N), NEW a5 \in Lines(N), NEW a6 \in Lines(N), NEW a7 \in Lines(N),
           NEW a8 \in Lines(N), NEW a9 \in Lines(N), NEW all,
           all = a1 \o a2 \o a3 \o a4 \o a5 \o a6 \o a7 \o a8 \o a9
    PROVE  JoinsNine(N, all, a1, a2, a3, a4, a5, a6, a7, a8, a9)
<1>2. PICK b2 : b2 = a1 \o a2
    OBVIOUS
<1>3. PICK b3 : b3 = b2 \o a3
    OBVIOUS
<1>4. PICK b4 : b4 = b3 \o a4
    OBVIOUS
<1>5. PICK b5 : b5 = b4 \o a5
    OBVIOUS
<1>6. PICK b6 : b6 = b5 \o a6
    OBVIOUS
<1>7. PICK b7 : b7 = b6 \o a7
    OBVIOUS
<1>8. PICK b8 : b8 = b7 \o a8
    OBVIOUS
<1>9. all = b8 \o a9
    BY <1>2, <1>3, <1>4, <1>5, <1>6, <1>7, <1>8
<1>a. b2 \in Lines(N)
    BY <1>2, LinesJoin
<1>b. b3 \in Lines(N)
    BY <1>a, <1>3, LinesJoin
<1>c. b4 \in Lines(N)
    BY <1>b, <1>4, LinesJoin
<1>d. b5 \in Lines(N)
    BY <1>c, <1>5, LinesJoin
<1>e. b6 \in Lines(N)
    BY <1>d, <1>6, LinesJoin
<1>f. b7 \in Lines(N)
    BY <1>e, <1>7, LinesJoin
<1>g. b8 \in Lines(N)
    BY <1>f, <1>8, LinesJoin
<1>h. all \in Lines(N)
    BY <1>g, <1>9, LinesJoin
<1>i. ASSUME NEW types
      PROVE  SumOfType(all, types) =
                 SumOfType(a1, types) + SumOfType(a2, types) + SumOfType(a3, types)
                     + SumOfType(a4, types) + SumOfType(a5, types) + SumOfType(a6, types)
                     + SumOfType(a7, types) + SumOfType(a8, types) + SumOfType(a9, types)
    <2>2. SumOfType(b2, types) = SumOfType(a1, types) + SumOfType(a2, types)
        BY <1>2, LinesJoin
    <2>3. SumOfType(b3, types) = SumOfType(b2, types) + SumOfType(a3, types)
        BY <1>a, <1>3, LinesJoin
    <2>4. SumOfType(b4, types) = SumOfType(b3, types) + SumOfType(a4, types)
        BY <1>b, <1>4, LinesJoin
    <2>5. SumOfType(b5, types) = SumOfType(b4, types) + SumOfType(a5, types)
        BY <1>c, <1>5, LinesJoin
    <2>6. SumOfType(b6, types) = SumOfType(b5, types) + SumOfType(a6, types)
        BY <1>d, <1>6, LinesJoin
    <2>7. SumOfType(b7, types) = SumOfType(b6, types) + SumOfType(a7, types)
        BY <1>e, <1>7, LinesJoin
    <2>8. SumOfType(b8, types) = SumOfType(b7, types) + SumOfType(a8, types)
        BY <1>f, <1>8, LinesJoin
    <2>9. SumOfType(all, types) = SumOfType(b8, types) + SumOfType(a9, types)
        BY <1>g, <1>9, LinesJoin
    <2> QED
        BY <2>2, <2>3, <2>4, <2>5, <2>6, <2>7, <2>8, <2>9
<1>j. ASSUME NEW name, NEW amount, Silent(a1, name), Silent(a2, name), Silent(a6, name),
             Silent(a7, name), Silent(a8, name), Silent(a9, name),
             \/ Tells(a3, name, amount) /\ Silent(a4, name) /\ Silent(a5, name)
             \/ Silent(a3, name) /\ Tells(a4, name, amount) /\ Silent(a5, name)
             \/ Silent(a3, name) /\ Silent(a4, name) /\ Tells(a5, name, amount)
      PROVE  Tells(all, name, amount)
    <2>2. Silent(b2, name)
        BY <1>j, <1>2, TellsJoin
    <2>3. /\ Tells(a3, name, amount) => Tells(b3, name, amount)
          /\ Silent(a3, name) => Silent(b3, name)
        BY <1>a, <1>3, <2>2, TellsJoin
    <2>4. /\ Tells(b3, name, amount) /\ Silent(a4, name) => Tells(b4, name, amount)
          /\ Silent(b3, name) /\ Tells(a4, name, amount) => Tells(b4, name, amount)
          /\ Silent(b3, name) /\ Silent(a4, name) => Silent(b4, name)
        BY <1>b, <1>4, TellsJoin
    <2>5. /\ Tells(b4, name, amount) /\ Silent(a5, name) => Tells(b5, name, amount)
          /\ Silent(b4, name) /\ Tells(a5, name, amount) => Tells(b5, name, amount)
        BY <1>c, <1>5, TellsJoin
    <2>6. Tells(b5, name, amount)
        BY <1>j, <2>3, <2>4, <2>5
    <2>7. Tells(b6, name, amount)
        BY <1>j, <1>d, <1>6, <2>6, TellsJoin
    <2>8. Tells(b7, name, amount)
        BY <1>j, <1>e, <1>7, <2>7, TellsJoin
    <2>9. Tells(b8, name, amount)
        BY <1>j, <1>f, <1>8, <2>8, TellsJoin
    <2> QED
        BY <1>j, <1>g, <1>9, <2>9, TellsJoin
<1> QED
    BY <1>h, <1>i, <1>j DEF JoinsNine

\* The pay by kind is of the amounts of the components, or nothing.
LEMMA PayByKind ==
    ASSUME NEW S, 0 \in S, NEW n \in Nat, NEW components, DOMAIN components = 1 .. n,
           \A i \in 1 .. n : components[i].amount \in S
    PROVE  /\ \A type : PayOfType(components, type) \in S
           /\ BasicPay(components) \in S
<1>1. ASSUME NEW T, T \subseteq 1 .. n, T # {}
      PROVE  Max(T) \in T /\ Min(T) \in T
    <2>1. \E k \in T : \A j \in T : k <= j
        <3>1. T \subseteq Nat
            BY <1>1
        <3> QED
            BY <1>1, <3>1, LeastNumber
    <2>2. \E k \in T : \A j \in T : j <= k
        <3> DEFINE U == {n - j : j \in T}
        <3>1. U \subseteq Nat /\ U # {}
            <4>1. \A j \in 1 .. n : n - j \in Nat
                OBVIOUS
            <4> QED
                BY <1>1, <4>1
        <3>2. PICK u \in U : \A v \in U : u <= v
            <4> HIDE DEF U
            <4> QED
                BY <3>1, LeastNumber
        <3>3. PICK k \in T : u = n - k
            OBVIOUS
        <3>4. ASSUME NEW j \in T
              PROVE  j <= k
            <4>1. u <= n - j
                BY <3>2
            <4>2. j \in Nat /\ k \in Nat
                BY <1>1
            <4> QED
                BY <3>3, <4>1, <4>2
        <3> QED
            BY <3>4
    <2>3. T \subseteq Int
        BY <1>1
    <2> QED
        BY <2>1, <2>2, <2>3 DEF Max, Min
<1>2. ASSUME NEW type
      PROVE  PayOfType(components, type) \in S
    <2>1. PICK T : T = {i \in DOMAIN components : components[i].type = type}
        OBVIOUS
    <2>2. T \subseteq 1 .. n
        BY <2>1
    <2> QED
        BY <1>1, <2>1, <2>2 DEF PayOfType
<1>3. BasicPay(components) \in S
    <2>1. PICK T : T = {i \in DOMAIN components : components[i].name = "basic"}
        OBVIOUS
    <2>2. T \subseteq 1 .. n
        BY <2>1
    <2> QED
        BY <1>1, <1>2, <2>1, <2>2 DEF BasicPay
<1> QED
    BY <1>2, <1>3

IsList(list) == \E n \in Nat : DOMAIN list = 1 .. n
AmountsIn(list, S) == IsList(list) /\ \A i \in DOMAIN list : list[i].amount \in S
ValuesIn(list, S) == IsList(list) /\ \A i \in DOMAIN list : list[i].value \in S
LoansIn(list) ==
    IsList(list) /\ \A i \in DOMAIN list : list[i].monthly \in Nat /\ list[i].remaining \in Nat

LEMMA PercentIsNat ==
    ASSUME NEW a \in Nat, NEW b \in Nat
    PROVE  a * b \in Nat /\ (a * b) \div 100 \in Nat
OBVIOUS

\* What a rule deducts is a natural number if its value is one, whatever its basis.
LEMMA RuleAmountIsNat ==
    ASSUME NEW rule, rule.value \in Nat, NEW gross \in Nat, NEW basic \in Nat
    PROVE  RuleAmount(rule, gross, basic) \in Nat
<1>1. PICK of \in Nat, value \in Nat :
          of = (IF rule.basis = "basic_pay" /\ basic > 0 THEN basic ELSE gross) /\ value = rule.value
    OBVIOUS
<1>2. (of * value) \div 100 \in Nat
    BY PercentIsNat
<1> QED
    BY <1>1, <1>2 DEF RuleAmount

\* The sum of the earning components, and of the lines that show them.
LEMMA ComponentsShown ==
    ASSUME NEW N, NEW S, S \subseteq Int, NEW components, AmountsIn(components, S),
           \A i \in DOMAIN components : components[i].name \in N
    PROVE  LET lines == [i \in DOMAIN components |->
                            Line("earning", components[i].name, components[i].amount)]
           IN /\ Listing(N, lines, "earning", SumFunction(Amounts(components)))
              /\ SumFunction(Amounts(components)) \in Int
              /\ S = Nat => SumFunction(Amounts(components)) \in Nat
<1>1. PICK n \in Nat : DOMAIN components = 1 .. n
    BY DEF AmountsIn, IsList
<1>2. PICK amounts, names, lines :
          /\ amounts = [i \in 1 .. n |-> components[i].amount]
          /\ names = [i \in 1 .. n |-> components[i].name]
          /\ lines = [i \in 1 .. n |-> Line("earning", names[i], amounts[i])]
    OBVIOUS
<1>3. amounts \in [1 .. n -> Int] /\ \A i \in 1 .. n : names[i] \in N /\ amounts[i] \in S
    BY <1>1, <1>2 DEF AmountsIn
<1>4. "earning" \in LineTypes
    BY DEF LineTypes
<1>5. Listing(N, lines, "earning", SumFunction(amounts))
    <2>1. n \in Nat /\ amounts \in [1 .. n -> Int] /\ "earning" \in LineTypes
        BY <1>3, <1>4
    <2>2. \A i \in 1 .. n : names[i] \in N
        BY <1>3
    <2>3. lines = [i \in 1 .. n |-> Line("earning", names[i], amounts[i])]
        BY <1>2
    <2> QED
        BY ONLY <2>1, <2>2, <2>3, LinesOfType
<1>6. amounts = Amounts(components)
    BY <1>1, <1>2 DEF Amounts
<1>7. lines = [i \in DOMAIN components |->
                  Line("earning", components[i].name, components[i].amount)]
    BY <1>1, <1>2
<1>8. SumFunction(amounts) = SumFunctionOnSet(amounts, 1 .. n) /\ IsFiniteSet(1 .. n)
    BY <1>2, FS_Interval DEF SumFunction
<1>9. SumFunction(amounts) \in Int
    BY <1>3, <1>8, SumIsInt
<1>10. S = Nat => SumFunction(amounts) \in Nat
    BY <1>3, <1>8, SumIsNat
<1> QED
    BY <1>5, <1>6, <1>7, <1>9, <1>10

\* What a list of deductions adds up to.
LEMMA DeductionsShown ==
    ASSUME NEW N, NEW n \in Nat, NEW amounts, DOMAIN amounts = 1 .. n,
           amounts \in [1 .. n -> Nat], NEW names, \A i \in 1 .. n : names[i] \in N,
           NEW lines, lines = [i \in 1 .. n |-> Line("deduction", names[i], amounts[i])]
    PROVE  Listing(N, lines, "deduction", SumFunction(amounts)) /\ SumFunction(amounts) \in Nat
<1>1. "deduction" \in LineTypes /\ amounts \in [1 .. n -> Int]
    BY DEF LineTypes
<1>2. Listing(N, lines, "deduction", SumFunction(amounts))
    <2>1. n \in Nat /\ amounts \in [1 .. n -> Int] /\ "deduction" \in LineTypes
        BY <1>1
    <2>2. \A i \in 1 .. n : names[i] \in N
        OBVIOUS
    <2>3. lines = [i \in 1 .. n |-> Line("deduction", names[i], amounts[i])]
        OBVIOUS
    <2> QED
        BY ONLY <2>1, <2>2, <2>3, LinesOfType
<1>3. SumFunction(amounts) = SumFunctionOnSet(amounts, 1 .. n) /\ IsFiniteSet(1 .. n)
    BY FS_Interval DEF SumFunction
<1>4. SumFunction(amounts) \in Nat
    BY <1>3, SumIsNat
<1> QED
    BY <1>2, <1>4

\* An entry whose lines add up to its sums, and tell the reports what was deducted.
Statutory(e) == DetailAmount(e, "PAYE") + DetailAmount(e, "pension") + DetailAmount(e, "NHF")
Fits(e) ==
    /\ {e.gross, e.bonuses, e.deductions, e.net, e.employerCost, e.paye, e.employerPension,
        e.nsitf} \subseteq Int
    /\ LinesAddUp(e)
    /\ {DetailAmount(e, "PAYE"), DetailAmount(e, "pension"), DetailAmount(e, "NHF")} \subseteq Nat
    /\ DetailAmount(e, "PAYE") = e.paye
    /\ Statutory(e) <= e.deductions
    /\ e.employerCost = e.employerPension + e.nsitf

\* calculateEmployeeEntry: the lines of an entry add up to its sums, and the reports find among
\* them what was deducted.
LEMMA EntryFits ==
    ASSUME NEW id, NEW business, NEW rent \in Int, NEW components, NEW rules, NEW loans,
           NEW adjustments, AmountsIn(components, Nat), ValuesIn(rules, Nat), LoansIn(loans),
           AmountsIn(adjustments, Int), NEW e,
           e = Entry(id, business, rent, components, rules, loans, adjustments)
    PROVE  Fits(e)
<1>1. PICK earned, basic, housing, transport :
          /\ earned = SumFunction(Amounts(components)) /\ basic = BasicPay(components)
          /\ housing = PayOfType(components, "housing")
          /\ transport = PayOfType(components, "transport")
    OBVIOUS
<1>2. PICK in : in = [basic |-> basic, housing |-> housing, transport |-> transport,
                      gross |-> earned, rent |-> rent, on |-> business.on]
    OBVIOUS
<1>3. PICK tax : tax = CalculateForCountry(business.currency, in)
    OBVIOUS
<1>4. PICK ruled, repaid :
          /\ ruled = [i \in DOMAIN rules |-> RuleAmount(rules[i], earned, basic)]
          /\ repaid = [i \in DOMAIN loans |-> Repayment(loans[i])]
    OBVIOUS
<1>5. PICK a1, a2, a3, a4, a5, a6, a7, a8, a9 :
          /\ a1 = [i \in DOMAIN components |->
                      Line("earning", components[i].name, components[i].amount)]
          /\ a2 = [i \in DOMAIN ruled |-> Line("deduction", rules[i].name, ruled[i])]
          /\ a3 = LineIfAny("statutory_deduction", "PAYE", tax.paye)
          /\ a4 = LineIfAny("statutory_deduction", "pension", tax.pension)
          /\ a5 = LineIfAny("statutory_deduction", "NHF", tax.nhf)
          /\ a6 = LineIfAny("employer_cost", "pension", tax.employerPension)
          /\ a7 = LineIfAny("employer_cost", "NSITF", tax.nsitf)
          /\ a8 = [i \in DOMAIN repaid |-> Line("deduction", "loan", repaid[i])]
          /\ a9 = AdjustmentLines(adjustments)
    OBVIOUS
<1>6. PICK up, more, down :
          /\ up = Adjusted(adjustments, "earning") /\ more = Adjusted(adjustments, "bonus")
          /\ down = Adjusted(adjustments, "deduction")
    OBVIOUS
<1>7. PICK deductions :
          deductions = SumFunction(ruled) + IfAny(tax.paye) + IfAny(tax.pension) + IfAny(tax.nhf)
                           + SumFunction(repaid) + down
    OBVIOUS
<1>8. e = [emp |-> id, gross |-> earned + up, bonuses |-> more, deductions |-> deductions,
           net |-> earned + up + more - deductions, employerCost |-> EmployerCosts(tax),
           taxable |-> tax.taxable, paye |-> tax.paye,
           employerPension |-> tax.employerPension, nsitf |-> tax.nsitf,
           lines |-> a1 \o a2 \o a3 \o a4 \o a5 \o a6 \o a7 \o a8 \o a9]
    BY <1>1, <1>2, <1>3, <1>4, <1>5, <1>6, <1>7 DEF Entry
<1> DEFINE N == {components[i].name : i \in DOMAIN components}
                  \cup {rules[i].name : i \in DOMAIN rules}
                  \cup {"PAYE", "pension", "NHF", "NSITF", "loan", "item"}
<1>9. PICK M : M = N
    OBVIOUS
<1> HIDE DEF N
<1>10. {"PAYE", "pension", "NHF", "NSITF", "loan", "item"} \subseteq M
    BY <1>9 DEF N
<1>11. earned \in Nat /\ Listing(M, a1, "earning", earned)
    <2>1. \A i \in DOMAIN components : components[i].name \in M
        BY <1>9 DEF N
    <2>2. Nat \subseteq Int
        OBVIOUS
    <2> QED
        BY <1>1, <1>5, <2>1, <2>2, ComponentsShown
<1>12. basic \in Nat /\ housing \in Nat /\ transport \in Nat
    BY <1>1, PayByKind DEF AmountsIn, IsList
<1>13. {tax.pension, tax.nhf, tax.employerPension, tax.nsitf, tax.paye} \subseteq Nat
    <2>1. Earned(in) \subseteq Nat /\ Earned(in) \subseteq Int /\ in.rent \in Int
        BY <1>2, <1>11, <1>12 DEF Earned
    <2>2. tax.paye \in Nat
        BY <1>3, <2>1, TaxableIncome
    <2>3. {tax.pension, tax.nhf, tax.employerPension, tax.nsitf} \subseteq Nat
        BY <1>3, <2>1, Contributions
    <2> QED
        BY <2>2, <2>3
<1>14. SumFunction(ruled) \in Nat /\ Listing(M, a2, "deduction", SumFunction(ruled))
    <2>1. PICK n \in Nat : DOMAIN rules = 1 .. n
        BY DEF ValuesIn, IsList
    <2>2. DOMAIN ruled = 1 .. n /\ ruled \in [1 .. n -> Nat]
        <3>1. \A i \in 1 .. n : RuleAmount(rules[i], earned, basic) \in Nat
            BY <1>11, <1>12, <2>1, RuleAmountIsNat DEF ValuesIn
        <3> QED
            BY <1>4, <2>1, <3>1
    <2>3. PICK names : names = [i \in 1 .. n |-> rules[i].name]
        OBVIOUS
    <2>4. \A i \in 1 .. n : names[i] \in M
        BY <1>9, <2>1, <2>3 DEF N
    <2>5. a2 = [i \in 1 .. n |-> Line("deduction", names[i], ruled[i])]
        BY <1>5, <2>2, <2>3
    <2>6. n \in Nat
        OBVIOUS
    <2> QED
        BY ONLY <2>2, <2>4, <2>5, <2>6, DeductionsShown
<1>15. SumFunction(repaid) \in Nat /\ Listing(M, a8, "deduction", SumFunction(repaid))
    <2>1. PICK n \in Nat : DOMAIN loans = 1 .. n
        BY DEF LoansIn, IsList
    <2>2. DOMAIN repaid = 1 .. n /\ repaid \in [1 .. n -> Nat]
        <3>1. \A i \in 1 .. n : Repayment(loans[i]) \in Nat
            BY <2>1 DEF LoansIn, Repayment, Least
        <3> QED
            BY <1>4, <2>1, <3>1
    <2>3. PICK names : names = [i \in 1 .. n |-> "loan"]
        OBVIOUS
    <2>4. \A i \in 1 .. n : names[i] \in M
        BY <1>10, <2>3
    <2>5. a8 = [i \in 1 .. n |-> Line("deduction", names[i], repaid[i])]
        BY <1>5, <2>2, <2>3
    <2>6. n \in Nat
        OBVIOUS
    <2> QED
        BY ONLY <2>2, <2>4, <2>5, <2>6, DeductionsShown
<1>16. /\ a9 \in Lines(M)
       /\ SumOfType(a9, {"earning"}) = up /\ SumOfType(a9, {"bonus"}) = more
       /\ SumOfType(a9, {"deduction", "statutory_deduction"}) = down
       /\ SumOfType(a9, {"employer_cost"}) = 0
       /\ up \in Nat /\ more \in Nat /\ down \in Nat
       /\ \A name : Silent(a9, name)
    <2>1. PICK n \in Nat : DOMAIN adjustments = 1 .. n
        BY DEF AmountsIn, IsList
    <2>2. \A i \in 1 .. n : adjustments[i].amount \in Int
        BY <2>1 DEF AmountsIn
    <2>3. "item" \in M
        BY <1>10
    <2> QED
        BY <1>5, <1>6, <2>1, <2>2, <2>3, AdjustmentsShown
<1>17. PICK paye \in Nat, pension \in Nat, nhf \in Nat, employer \in Nat, nsitf \in Nat :
           /\ paye = tax.paye /\ pension = tax.pension /\ nhf = tax.nhf
           /\ employer = tax.employerPension /\ nsitf = tax.nsitf
    BY <1>13
<1>18. \A amount \in Nat : IfAny(amount) = amount
    BY DEF IfAny, Only
<1>19. "statutory_deduction" \in LineTypes /\ "employer_cost" \in LineTypes
    BY DEF LineTypes
<1>20. /\ Listing(M, a3, "statutory_deduction", paye)
       /\ \A other : other # "PAYE" => Silent(a3, other)
       /\ Tells(a3, "PAYE", paye)
    <2>1. a3 = LineIfAny("statutory_deduction", "PAYE", paye) /\ "PAYE" \in M /\ paye \in Int
        BY <1>5, <1>10, <1>17
    <2> QED
        BY <1>18, <1>19, <2>1, OneLine
<1>21. /\ Listing(M, a4, "statutory_deduction", pension)
       /\ \A other : other # "pension" => Silent(a4, other)
       /\ Tells(a4, "pension", pension)
    <2>1. a4 = LineIfAny("statutory_deduction", "pension", pension) /\ "pension" \in M /\ pension \in Int
        BY <1>5, <1>10, <1>17
    <2> QED
        BY <1>18, <1>19, <2>1, OneLine
<1>22. /\ Listing(M, a5, "statutory_deduction", nhf)
       /\ \A other : other # "NHF" => Silent(a5, other)
       /\ Tells(a5, "NHF", nhf)
    <2>1. a5 = LineIfAny("statutory_deduction", "NHF", nhf) /\ "NHF" \in M /\ nhf \in Int
        BY <1>5, <1>10, <1>17
    <2> QED
        BY <1>18, <1>19, <2>1, OneLine
<1>23. Listing(M, a6, "employer_cost", employer)
    <2>1. a6 = LineIfAny("employer_cost", "pension", employer) /\ "pension" \in M /\ employer \in Int
        BY <1>5, <1>10, <1>17
    <2> QED
        BY <1>18, <1>19, <2>1, OneLine
<1>24. Listing(M, a7, "employer_cost", nsitf)
    <2>1. a7 = LineIfAny("employer_cost", "NSITF", nsitf) /\ "NSITF" \in M /\ nsitf \in Int
        BY <1>5, <1>10, <1>17
    <2> QED
        BY <1>18, <1>19, <2>1, OneLine
<1>25. PICK all : all = a1 \o a2 \o a3 \o a4 \o a5 \o a6 \o a7 \o a8 \o a9
    OBVIOUS
<1>26. JoinsNine(M, all, a1, a2, a3, a4, a5, a6, a7, a8, a9)
    <2>1. /\ a1 \in Lines(M) /\ a2 \in Lines(M) /\ a3 \in Lines(M) /\ a4 \in Lines(M)
          /\ a5 \in Lines(M) /\ a6 \in Lines(M) /\ a7 \in Lines(M) /\ a8 \in Lines(M)
          /\ a9 \in Lines(M)
        BY <1>11, <1>14, <1>15, <1>16, <1>20, <1>21, <1>22, <1>23, <1>24 DEF Listing
    <2> QED
        BY ONLY <1>25, <2>1, NineLists
<1>27. e.lines = all /\ e.lines \in Lines(M)
    BY <1>8, <1>25, <1>26 DEF JoinsNine
<1>28. PICK x \in Nat, y \in Nat : x = SumFunction(ruled) /\ y = SumFunction(repaid)
    BY <1>14, <1>15
<1>29. deductions = x + paye + pension + nhf + y + down /\ deductions \in Nat
    BY <1>7, <1>16, <1>17, <1>18, <1>28
<1>30. \A types : OfType(e, types) = SumOfType(all, types)
    BY <1>27 DEF OfType, SumOfType
<1>31. OfType(e, {"earning"}) = earned + up
    <2>1. SumOfType(all, {"earning"}) = earned + 0 + 0 + 0 + 0 + 0 + 0 + 0 + up
        BY <1>11, <1>14, <1>15, <1>16, <1>20, <1>21, <1>22, <1>23, <1>24, <1>26
           DEF JoinsNine, Listing, Only
    <2> QED
        BY <1>11, <1>16, <1>30, <2>1
<1>32. OfType(e, {"bonus"}) = more
    <2>1. SumOfType(all, {"bonus"}) = 0 + 0 + 0 + 0 + 0 + 0 + 0 + 0 + more
        BY <1>11, <1>14, <1>15, <1>16, <1>20, <1>21, <1>22, <1>23, <1>24, <1>26
           DEF JoinsNine, Listing, Only
    <2> QED
        BY <1>16, <1>30, <2>1
<1>33. OfType(e, {"deduction", "statutory_deduction"}) = deductions
    <2>1. SumOfType(all, {"deduction", "statutory_deduction"})
              = 0 + x + paye + pension + nhf + 0 + 0 + y + down
        BY <1>11, <1>14, <1>15, <1>16, <1>20, <1>21, <1>22, <1>23, <1>24, <1>26, <1>28
           DEF JoinsNine, Listing, Only
    <2> QED
        BY <1>16, <1>29, <1>30, <2>1
<1>34. OfType(e, {"employer_cost"}) = employer + nsitf
    <2>1. SumOfType(all, {"employer_cost"}) = 0 + 0 + 0 + 0 + 0 + employer + nsitf + 0 + 0
        BY <1>11, <1>14, <1>15, <1>16, <1>20, <1>21, <1>22, <1>23, <1>24, <1>26
           DEF JoinsNine, Listing, Only
    <2> QED
        BY <1>30, <2>1
<1>35. DetailAmount(e, "PAYE") = paye
    <2>1. Tells(all, "PAYE", paye)
        BY <1>11, <1>14, <1>15, <1>16, <1>20, <1>21, <1>22, <1>23, <1>24, <1>26
           DEF JoinsNine, Listing
    <2> QED
        BY <1>27, <2>1, TellsFound
<1>36. DetailAmount(e, "pension") = pension
    <2>1. Tells(all, "pension", pension)
        BY <1>11, <1>14, <1>15, <1>16, <1>20, <1>21, <1>22, <1>23, <1>24, <1>26
           DEF JoinsNine, Listing
    <2> QED
        BY <1>27, <2>1, TellsFound
<1>37. DetailAmount(e, "NHF") = nhf
    <2>1. Tells(all, "NHF", nhf)
        BY <1>11, <1>14, <1>15, <1>16, <1>20, <1>21, <1>22, <1>23, <1>24, <1>26
           DEF JoinsNine, Listing
    <2> QED
        BY <1>27, <2>1, TellsFound
<1>38. /\ e.gross = earned + up /\ e.bonuses = more /\ e.deductions = deductions
       /\ e.net = earned + up + more - deductions /\ e.employerCost = employer + nsitf
       /\ e.paye = paye /\ e.employerPension = employer /\ e.nsitf = nsitf
    BY <1>8, <1>17 DEF EmployerCosts
<1>39. LinesAddUp(e)
    BY <1>31, <1>32, <1>33, <1>34, <1>38 DEF LinesAddUp
<1> QED
    BY <1>11, <1>16, <1>29, <1>35, <1>36, <1>37, <1>38, <1>39 DEF Fits, Statutory

\* The tax in an entry is that of the brackets, but in Ghana.
LEMMA EntryTaxed ==
    ASSUME NEW id, NEW business, business.currency # "GHS", NEW rent \in Int, NEW components,
           NEW rules, NEW loans, NEW adjustments, AmountsIn(components, Int)
    PROVE  TaxedByUnit(Entry(id, business, rent, components, rules, loans, adjustments))
<1>1. PICK earned, basic, housing, transport :
          /\ earned = SumFunction(Amounts(components)) /\ basic = BasicPay(components)
          /\ housing = PayOfType(components, "housing")
          /\ transport = PayOfType(components, "transport")
    OBVIOUS
<1>2. PICK in : in = [basic |-> basic, housing |-> housing, transport |-> transport,
                      gross |-> earned, rent |-> rent, on |-> business.on]
    OBVIOUS
<1>3. PICK tax : tax = CalculateForCountry(business.currency, in)
    OBVIOUS
<1>4. PICK e : e = Entry(id, business, rent, components, rules, loans, adjustments)
    OBVIOUS
<1>5. e.taxable = tax.taxable /\ e.paye = tax.paye
    BY <1>1, <1>2, <1>3, <1>4 DEF Entry
<1>6. basic \in Int /\ housing \in Int /\ transport \in Int
    BY <1>1, PayByKind DEF AmountsIn, IsList
<1>7. earned \in Int
    <2>1. PICK M : M = {components[i].name : i \in DOMAIN components}
        OBVIOUS
    <2>2. \A i \in DOMAIN components : components[i].name \in M
        BY <2>1
    <2>3. Int \subseteq Int
        OBVIOUS
    <2> QED
        BY <1>1, <2>2, <2>3, ComponentsShown
<1>8. Earned(in) \subseteq Int /\ in.rent \in Int
    BY <1>2, <1>6, <1>7 DEF Earned
<1>9. tax.taxable \in Nat /\ tax.paye = MonthlyTax(NigerianBrackets, tax.taxable)
    BY <1>3, <1>8, TaxableIncome
<1> QED
    BY <1>4, <1>5, <1>9, TaxedUnits

-----------------------------------------------------------------------------
(* The run and its reports *)

\* The rows of a report of which each entry has one of its own, and a column of them.
OneRowEach(rows, E, r) ==
    rows = {r[e] : e \in E} /\ \A x \in E : \A y \in E : r[x] = r[y] => x = y
IsColumn(E, r, column, g) == \A e \in E : g[e] \in Int /\ r[e][column] = g[e]

\* The total of a column is the sum over the entries.
LEMMA ReportTotal ==
    ASSUME NEW E, IsFiniteSet(E), NEW r, NEW rows, OneRowEach(rows, E, r),
           NEW column, NEW g, IsColumn(E, r, column, g)
    PROVE  IsFiniteSet(rows) /\ TotalOf(rows, column) = SumFunctionOnSet(g, E)
<1>1. PICK f : f = [row \in rows |-> row[column]]
    OBVIOUS
<1>2. \A e \in E : r[e] \in rows
    BY DEF OneRowEach
<1>0. /\ rows = {r[e] : e \in E} /\ \A x \in E : \A y \in E : r[x] = r[y] => x = y
      /\ \A e \in E : g[e] \in Int /\ r[e][column] = g[e]
    BY DEF OneRowEach, IsColumn
<1>3. \A e \in E : g[e] \in Int /\ f[r[e]] = g[e]
    BY <1>0, <1>1, <1>2
<1>4. IsFiniteSet({r[e] : e \in E}) /\ SumFunctionOnSet(f, {r[e] : e \in E}) = SumFunctionOnSet(g, E)
    BY ONLY <1>0, <1>3, SumOfImage, IsFiniteSet(E)
<1>5. TotalOf(rows, column) = SumFunctionOnSet(f, rows)
    BY <1>1 DEF TotalOf, SumFunction
<1> QED
    BY <1>0, <1>4, <1>5

\* A column of the entries themselves.
LEMMA EntriesTotal ==
    ASSUME NEW E, IsFiniteSet(E), NEW column, NEW g, \A e \in E : g[e] \in Int /\ e[column] = g[e]
    PROVE  TotalOf(E, column) = SumFunctionOnSet(g, E)
<1>1. PICK f : f = [e \in E |-> e[column]]
    OBVIOUS
<1>2. \A e \in E : f[e] = g[e]
    BY <1>1
<1>3. TotalOf(E, column) = SumFunctionOnSet(f, E)
    BY <1>1 DEF TotalOf, SumFunction
<1> QED
    BY <1>2, <1>3, SumSame

\* A run of such entries adds up, and its reports come to the same totals.
LEMMA RunFits ==
    ASSUME NEW business, NEW E, IsFiniteSet(E), \A x, y \in E : x.emp = y.emp => x = y,
           \A e \in E : Fits(e), NEW run, run = RunOf(business, E)
    PROVE  AddsUp(run)
<1>1. PICK gross, bonuses, deductions, net, costs, employer, nsitf, paye, pension, nhf, custom :
          /\ gross = [e \in E |-> e.gross] /\ bonuses = [e \in E |-> e.bonuses]
          /\ deductions = [e \in E |-> e.deductions] /\ net = [e \in E |-> e.net]
          /\ costs = [e \in E |-> e.employerCost] /\ employer = [e \in E |-> e.employerPension]
          /\ nsitf = [e \in E |-> e.nsitf] /\ paye = [e \in E |-> DetailAmount(e, "PAYE")]
          /\ pension = [e \in E |-> DetailAmount(e, "pension")]
          /\ nhf = [e \in E |-> DetailAmount(e, "NHF")]
          /\ custom = [e \in E |-> e.deductions - Statutory(e)]
    OBVIOUS
<1>2. \A e \in E :
          /\ gross[e] = e.gross /\ bonuses[e] = e.bonuses /\ deductions[e] = e.deductions
          /\ net[e] = e.net /\ costs[e] = e.employerCost /\ employer[e] = e.employerPension
          /\ nsitf[e] = e.nsitf /\ paye[e] = DetailAmount(e, "PAYE")
          /\ pension[e] = DetailAmount(e, "pension") /\ nhf[e] = DetailAmount(e, "NHF")
          /\ custom[e] = e.deductions - Statutory(e)
    BY <1>1
<1>3. \A e \in E :
          /\ gross[e] \in Int /\ bonuses[e] \in Int /\ deductions[e] \in Int /\ net[e] \in Int
          /\ costs[e] \in Int /\ employer[e] \in Int /\ nsitf[e] \in Int /\ paye[e] \in Nat
          /\ pension[e] \in Nat /\ nhf[e] \in Nat /\ custom[e] \in Nat
          /\ e.paye = paye[e] /\ net[e] = gross[e] + bonuses[e] - deductions[e]
          /\ paye[e] + pension[e] + nhf[e] + custom[e] = deductions[e]
          /\ Statutory(e) <= e.deductions /\ costs[e] = employer[e] + nsitf[e]
    BY <1>2 DEF Fits, LinesAddUp, Statutory
<1> DEFINE Total(f) == SumFunctionOnSet(f, E)
<1>4. /\ Total(gross) \in Int /\ Total(bonuses) \in Int /\ Total(deductions) \in Int
      /\ Total(net) \in Int /\ Total(costs) \in Int /\ Total(employer) \in Int
      /\ Total(nsitf) \in Int /\ Total(paye) \in Int /\ Total(pension) \in Int
      /\ Total(nhf) \in Int /\ Total(custom) \in Int
    <2>1. \A f : (\A e \in E : f[e] \in Int) => Total(f) \in Int
        BY SumIsInt
    <2> HIDE DEF Total
    <2> QED
        BY <1>3, <2>1
<1>5. \A f, g, h : (\A e \in E : f[e] \in Int /\ g[e] \in Int /\ h[e] = f[e] + g[e])
                       => Total(h) = Total(f) + Total(g)
    BY SumAdds
<1>6. Total(net) = Total(gross) + Total(bonuses) - Total(deductions)
    <2>1. PICK both : both = [e \in E |-> gross[e] + bonuses[e]]
        OBVIOUS
    <2>2. Total(both) = Total(gross) + Total(bonuses)
        <3> HIDE DEF Total
        <3> QED
            BY <1>3, <1>5, <2>1
    <2>3. Total(both) = Total(net) + Total(deductions)
        <3>1. \A e \in E : net[e] \in Int /\ deductions[e] \in Int /\ both[e] = net[e] + deductions[e]
            BY <1>3, <2>1
        <3> HIDE DEF Total
        <3> QED
            BY <1>5, <3>1
    <2> HIDE DEF Total
    <2>4. PICK a \in Int, b \in Int, c \in Int, d \in Int :
              a = Total(net) /\ b = Total(gross) /\ c = Total(bonuses) /\ d = Total(deductions)
        BY <1>4
    <2>5. b + c = a + d
        BY <2>2, <2>3, <2>4
    <2>6. a = b + c - d
        BY <2>5
    <2> QED
        BY <2>4, <2>6
<1>7. Total(costs) = Total(employer) + Total(nsitf)
    <2> HIDE DEF Total
    <2> QED
        BY <1>3, <1>5
<1>8. Total(paye) + Total(pension) + Total(nhf) + Total(custom) = Total(deductions)
    <2>1. PICK two, three :
              /\ two = [e \in E |-> paye[e] + pension[e]]
              /\ three = [e \in E |-> two[e] + nhf[e]]
        OBVIOUS
    <2>2. \A e \in E : /\ two[e] = paye[e] + pension[e] /\ three[e] = two[e] + nhf[e]
                       /\ two[e] \in Int /\ three[e] \in Int
                       /\ deductions[e] = three[e] + custom[e]
        BY <1>3, <2>1
    <2>3. Total(two) = Total(paye) + Total(pension)
        <3> HIDE DEF Total
        <3> QED
            BY <1>3, <1>5, <2>2
    <2>4. Total(three) = Total(two) + Total(nhf)
        <3> HIDE DEF Total
        <3> QED
            BY <1>3, <1>5, <2>2
    <2>5. Total(deductions) = Total(three) + Total(custom)
        <3> HIDE DEF Total
        <3> QED
            BY <1>3, <1>5, <2>2
    <2> HIDE DEF Total
    <2> QED
        BY <2>3, <2>4, <2>5
<1>9. /\ TotalOf(E, "gross") = Total(gross) /\ TotalOf(E, "bonuses") = Total(bonuses)
      /\ TotalOf(E, "deductions") = Total(deductions) /\ TotalOf(E, "net") = Total(net)
      /\ TotalOf(E, "employerCost") = Total(costs) /\ TotalOf(E, "paye") = Total(paye)
    <2>1. \A column, g : (\A e \in E : g[e] \in Int /\ e[column] = g[e])
                             => TotalOf(E, column) = Total(g)
        BY EntriesTotal
    <2>2. \A e \in E : gross[e] \in Int /\ e["gross"] = gross[e]
        BY <1>2, <1>3
    <2>3. \A e \in E : bonuses[e] \in Int /\ e["bonuses"] = bonuses[e]
        BY <1>2, <1>3
    <2>4. \A e \in E : deductions[e] \in Int /\ e["deductions"] = deductions[e]
        BY <1>2, <1>3
    <2>5. \A e \in E : net[e] \in Int /\ e["net"] = net[e]
        BY <1>2, <1>3
    <2>6. \A e \in E : costs[e] \in Int /\ e["employerCost"] = costs[e]
        BY <1>2, <1>3
    <2>7. \A e \in E : paye[e] \in Int /\ e["paye"] = paye[e]
        BY <1>2, <1>3
    <2> HIDE DEF Total
    <2> QED
        BY <2>1, <2>2, <2>3, <2>4, <2>5, <2>6, <2>7
<1>10. /\ run.entries = E /\ run.gross = Total(gross) /\ run.deductions = Total(deductions)
       /\ run.net = Total(net) /\ run.employerCosts = Total(costs)
       /\ run.cost = Total(gross) + Total(costs)
    <2> HIDE DEF Total
    <2> QED
        BY <1>9 DEF RunOf
<1>11. RunAddsUp(run)
    <2> HIDE DEF Total
    <2> QED
        BY <1>6, <1>9, <1>10 DEF RunAddsUp
<1>12. PICK r : r = [e \in E |-> RegisterRow(e)]
    OBVIOUS
<1>13. \A x \in E : \A y \in E : r[x] = r[y] => x = y
    <2>1. \A e \in E : r[e].emp = e.emp
        BY <1>12 DEF RegisterRow
    <2> QED
        BY <2>1
<1>14. PICK rows : rows = {r[e] : e \in E}
    OBVIOUS
<1>15. rows = {RegisterRow(e) : e \in E}
    BY <1>12, <1>14
<1>16. \A column, g : (\A e \in E : g[e] \in Int /\ r[e][column] = g[e])
                          => TotalOf(rows, column) = Total(g)
    <2> SUFFICES ASSUME NEW column, NEW g, \A e \in E : g[e] \in Int /\ r[e][column] = g[e]
                 PROVE  TotalOf(rows, column) = Total(g)
        OBVIOUS
    <2>1. OneRowEach(rows, E, r) /\ IsColumn(E, r, column, g)
        BY <1>13, <1>14 DEF OneRowEach, IsColumn
    <2> QED
        BY <2>1, ReportTotal
<1>17. /\ TotalOf(rows, "gross") = Total(gross) /\ TotalOf(rows, "paye") = Total(paye)
       /\ TotalOf(rows, "pension") = Total(pension) /\ TotalOf(rows, "nhf") = Total(nhf)
       /\ TotalOf(rows, "employerPension") = Total(employer)
       /\ TotalOf(rows, "custom") = Total(custom)
       /\ TotalOf(rows, "deductions") = Total(deductions) /\ TotalOf(rows, "net") = Total(net)
       /\ TotalOf(rows, "nsitf") = Total(nsitf)
       /\ TotalOf(rows, "cost") = Total(gross) + Total(costs)
    <2>1. \A e \in E :
              /\ r[e]["gross"] = gross[e] /\ r[e]["paye"] = paye[e] /\ r[e]["pension"] = pension[e]
              /\ r[e]["nhf"] = nhf[e] /\ r[e]["employerPension"] = employer[e]
              /\ r[e]["custom"] = custom[e] /\ r[e]["deductions"] = deductions[e]
              /\ r[e]["net"] = net[e] /\ r[e]["nsitf"] = nsitf[e]
              /\ r[e]["cost"] = gross[e] + costs[e]
        <3> SUFFICES ASSUME NEW e \in E
                     PROVE  /\ r[e]["gross"] = gross[e] /\ r[e]["paye"] = paye[e]
                            /\ r[e]["pension"] = pension[e]
                            /\ r[e]["nhf"] = nhf[e] /\ r[e]["employerPension"] = employer[e]
                            /\ r[e]["custom"] = custom[e] /\ r[e]["deductions"] = deductions[e]
                            /\ r[e]["net"] = net[e] /\ r[e]["nsitf"] = nsitf[e]
                            /\ r[e]["cost"] = gross[e] + costs[e]
            OBVIOUS
        <3>1. PICK row : row = RegisterRow(e)
            OBVIOUS
        <3>2. Only(e.deductions > Statutory(e), e.deductions - Statutory(e)) = custom[e]
            BY <1>2, <1>3 DEF Only, Statutory
        <3>3. /\ row.gross = e.gross /\ row.paye = DetailAmount(e, "PAYE")
              /\ row.pension = DetailAmount(e, "pension") /\ row.nhf = DetailAmount(e, "NHF")
              /\ row.employerPension = e.employerPension /\ row.deductions = e.deductions
              /\ row.net = e.net /\ row.nsitf = e.nsitf /\ row.cost = e.gross + e.employerCost
              /\ row.custom = Only(e.deductions > Statutory(e), e.deductions - Statutory(e))
            BY <3>1 DEF RegisterRow, Statutory
        <3>4. r[e] = row
            BY <1>12, <3>1
        <3> QED
            BY <1>2, <3>2, <3>3, <3>4
    <2>2. PICK cost : cost = [e \in E |-> gross[e] + costs[e]]
        OBVIOUS
    <2>3. \A e \in E : cost[e] = gross[e] + costs[e] /\ cost[e] \in Int
        BY <1>3, <2>2
    <2>4. Total(cost) = Total(gross) + Total(costs)
        <3> HIDE DEF Total
        <3> QED
            BY <1>3, <1>5, <2>3
    <2> HIDE DEF Total
    <2>5. TotalOf(rows, "cost") = Total(cost)
        BY <1>16, <2>1, <2>3
    <2>6. TotalOf(rows, "gross") = Total(gross) /\ TotalOf(rows, "paye") = Total(paye)
        BY <1>3, <1>16, <2>1
    <2>7. TotalOf(rows, "pension") = Total(pension) /\ TotalOf(rows, "nhf") = Total(nhf)
        BY <1>3, <1>16, <2>1
    <2>8. TotalOf(rows, "employerPension") = Total(employer) /\ TotalOf(rows, "custom") = Total(custom)
        BY <1>3, <1>16, <2>1
    <2>9. /\ TotalOf(rows, "deductions") = Total(deductions) /\ TotalOf(rows, "net") = Total(net)
          /\ TotalOf(rows, "nsitf") = Total(nsitf)
        BY <1>3, <1>16, <2>1
    <2> QED
        BY <2>4, <2>5, <2>6, <2>7, <2>8, <2>9
<1>18. TotalOf(GeneratePAYEReport(run), "paye") = Total(paye)
    <2>1. PICK q : q = [e \in E |-> [emp |-> e.emp, gross |-> e.gross, paye |-> DetailAmount(e, "PAYE")]]
        OBVIOUS
    <2>2. \A e \in E : q[e].emp = e.emp /\ q[e]["paye"] = paye[e] /\ paye[e] \in Int
        BY <1>2, <1>3, <2>1
    <2>3. PICK report : report = {q[e] : e \in E}
        OBVIOUS
    <2>4. report = GeneratePAYEReport(run)
        BY <1>10, <2>1, <2>3 DEF GeneratePAYEReport
    <2>5. \A x \in E : \A y \in E : q[x] = q[y] => x = y
        BY <2>2
    <2>6. \A e \in E : paye[e] \in Int /\ q[e]["paye"] = paye[e]
        BY <2>2
    <2>7. OneRowEach(report, E, q) /\ IsColumn(E, q, "paye", paye)
        BY <2>3, <2>5, <2>6 DEF OneRowEach, IsColumn
    <2> QED
        BY <2>4, <2>7, ReportTotal
<1>19. TotalOf(GeneratePensionSchedule(run), "total") = Total(pension) + Total(employer)
    <2>1. PICK q :
              q = [e \in E |->
                      [emp |-> e.emp, employee |-> DetailAmount(e, "pension"),
                       employer |-> e.employerPension,
                       total |-> DetailAmount(e, "pension") + e.employerPension]]
        OBVIOUS
    <2>2. PICK both : both = [e \in E |-> pension[e] + employer[e]]
        OBVIOUS
    <2>3. \A e \in E : /\ q[e].emp = e.emp /\ q[e]["total"] = both[e]
                       /\ both[e] = pension[e] + employer[e] /\ both[e] \in Int
        BY <1>2, <1>3, <2>1, <2>2
    <2>4. PICK report : report = {q[e] : e \in E}
        OBVIOUS
    <2>5. report = GeneratePensionSchedule(run)
        BY <1>10, <2>1, <2>4 DEF GeneratePensionSchedule
    <2>6. \A x \in E : \A y \in E : q[x] = q[y] => x = y
        BY <2>3
    <2>7. \A e \in E : both[e] \in Int /\ q[e]["total"] = both[e]
        BY <2>3
    <2>8. TotalOf(report, "total") = Total(both)
        <3>1. OneRowEach(report, E, q) /\ IsColumn(E, q, "total", both)
            BY <2>4, <2>6, <2>7 DEF OneRowEach, IsColumn
        <3> QED
            BY <3>1, ReportTotal
    <2>9. Total(both) = Total(pension) + Total(employer)
        <3> HIDE DEF Total
        <3> QED
            BY <1>3, <1>5, <2>3
    <2> HIDE DEF Total
    <2> QED
        BY <2>5, <2>8, <2>9
<1>20. TotalOf(GenerateNHFSchedule(run), "nhf") = Total(nhf)
    <2>1. PICK q : q = [e \in E |-> [emp |-> e.emp, nhf |-> DetailAmount(e, "NHF")]]
        OBVIOUS
    <2>2. \A e \in E : q[e].emp = e.emp /\ q[e]["nhf"] = nhf[e] /\ nhf[e] \in Int
        BY <1>2, <1>3, <2>1
    <2>3. PICK all : all = {q[e] : e \in E}
        OBVIOUS
    <2>4. PICK part : part = {row \in all : row.nhf # 0}
        OBVIOUS
    <2>5. part = GenerateNHFSchedule(run)
        BY <1>10, <2>1, <2>3, <2>4 DEF GenerateNHFSchedule
    <2>6. \A x \in E : \A y \in E : q[x] = q[y] => x = y
        BY <2>2
    <2>7. \A e \in E : nhf[e] \in Int /\ q[e]["nhf"] = nhf[e]
        BY <2>2
    <2>8. IsFiniteSet(all) /\ TotalOf(all, "nhf") = Total(nhf)
        <3>1. OneRowEach(all, E, q) /\ IsColumn(E, q, "nhf", nhf)
            BY <2>3, <2>6, <2>7 DEF OneRowEach, IsColumn
        <3> QED
            BY <3>1, ReportTotal
    <2>9. PICK f, g : f = [row \in part |-> row["nhf"]] /\ g = [row \in all |-> row["nhf"]]
        OBVIOUS
    <2>10. /\ part \subseteq all /\ \A x \in part : f[x] \in Int /\ g[x] = f[x]
           /\ \A x \in all \ part : g[x] = 0
        BY <2>2, <2>3, <2>4, <2>9
    <2>11. SumFunctionOnSet(f, part) = SumFunctionOnSet(g, all)
        BY <2>8, <2>10, SumOfPart
    <2>12. /\ TotalOf(part, "nhf") = SumFunctionOnSet(f, part)
           /\ TotalOf(all, "nhf") = SumFunctionOnSet(g, all)
        BY <2>9 DEF TotalOf, SumFunction
    <2> QED
        BY <2>5, <2>8, <2>11, <2>12
<1>21. ReportsAgree(run)
    <2>1. PICK totals : totals = GeneratePayrollSummary(run).totals
        OBVIOUS
    <2>2. /\ totals.gross = TotalOf(rows, "gross") /\ totals.paye = TotalOf(rows, "paye")
          /\ totals.pension = TotalOf(rows, "pension") /\ totals.nhf = TotalOf(rows, "nhf")
          /\ totals.employerPension = TotalOf(rows, "employerPension")
          /\ totals.custom = TotalOf(rows, "custom")
          /\ totals.deductions = TotalOf(rows, "deductions") /\ totals.net = TotalOf(rows, "net")
          /\ totals.nsitf = TotalOf(rows, "nsitf") /\ totals.cost = TotalOf(rows, "cost")
        BY <1>10, <1>15, <2>1 DEF GeneratePayrollSummary
    <2> HIDE DEF Total
    <2> QED
        BY <1>7, <1>8, <1>9, <1>10, <1>17, <1>18, <1>19, <1>20, <2>1, <2>2 DEF ReportsAgree
<1>22. \A e \in run.entries : LinesAddUp(e)
    BY <1>10 DEF Fits
<1> QED
    BY <1>11, <1>21, <1>22 DEF AddsUp

-----------------------------------------------------------------------------
(* The rows of the tables, and what the calls have in hand of them *)

AreNatural(list) == \A i \in DOMAIN list : list[i].amount \in Nat

\* Amounts of cadres and values of rules, of the start and of requests, are not negative.
NaturalAmounts ==
    /\ \A k \in DOMAIN Rows0.cadres :
           Rows0.cadres[k] # Nothing => AreNatural(Rows0.cadres[k].components)
    /\ \A r \in DOMAIN Rows0.rules : Rows0.rules[r] # Nothing => Rows0.rules[r].value \in Nat
    /\ \A work \in Workloads : \A c \in Calls :
           /\ work[c].op \in {"create_cadre", "update_cadre"} =>
                  AreNatural(work[c].components)
           /\ work[c].op \in {"create_rule", "update_rule"} => work[c].value \in Nat

\* The brackets are Nigerian: no business is of Ghana at the start (and registrations make
\* none), and the runs of the start are taxed by these brackets.
TaxedInNigeria ==
    /\ \A b \in DOMAIN Rows0.businesses :
           Rows0.businesses[b] # Nothing => Rows0.businesses[b].currency # "GHS"
    /\ \A r \in DOMAIN Rows0.runs :
           Rows0.runs[r] # Nothing => \A e \in Rows0.runs[r].entries : TaxedByUnit(e)

\* SQL's NULL is not the row of an employee.
NullIsNoEmployee == ~IsEmployee(Nothing)

Amount == IF NaturalAmounts THEN Nat ELSE Int

SlipTables == {"businesses", "users", "employees", "cadres", "rules", "loans", "runs"}

PaysInNaira(business) == TaxedInNigeria => business.currency # "GHS"
GoodBusiness(b) == IsBusiness(b) /\ PaysInNaira(b)
GoodEmployee(e) == IsEmployee(e) /\ e.rent \in Int
GoodCadre(k) ==
    IsCadre(k) /\ AmountsIn(k.components, Amount) /\ k.components \in Seq(Range(k.components))
GoodRule(r) == IsRule(r) /\ (NaturalAmounts => r.value \in Nat)
GoodLoan(l) ==
    /\ {"monthly", "remaining"} \subseteq DOMAIN l
    /\ l.monthly \in Nat /\ l.remaining \in Nat
GoodRun(run) ==
    /\ IsRun(run)
    /\ NaturalAmounts => AddsUp(run)
    /\ TaxedInNigeria => \A e \in run.entries : TaxedByUnit(e)

GoodRow(table, row) ==
    /\ table = "businesses" => GoodBusiness(row)
    /\ table = "users" => IsUser(row)
    /\ table = "employees" => GoodEmployee(row)
    /\ table = "cadres" => GoodCadre(row)
    /\ table = "rules" => GoodRule(row)
    /\ table = "loans" => GoodLoan(row)
    /\ table = "runs" => GoodRun(row)

SlipRows ==
    /\ SlipTables \subseteq DOMAIN db
    /\ \A table \in SlipTables :
           /\ DOMAIN db[table] = DOMAIN Rows0[table]
           /\ \A id \in DOMAIN db[table] :
                  db[table][id] # Nothing => GoodRow(table, db[table][id])

HiringLabels == {"hire", "hire.email", "hire.verify", "hire.insert"}
SavingLabels ==
    {"update.cadre", "update.verify", "update.save", "deactivate.save",
     "create_login.user", "create_login.link"}

\* The labels where the request of a call matters, and the requests that get there.
Asking ==
    {<<"create_cadre", "create_cadre">>, <<"create_cadre.insert", "create_cadre">>,
     <<"update_cadre", "update_cadre">>, <<"create_rule", "create_rule">>,
     <<"update_rule", "update_rule">>, <<"lend", "lend">>, <<"cancel_loan", "cancel_loan">>,
     <<"calculate", "calculate">>,
     <<"settings", "settings">>, <<"settings.save", "settings">>}
AskingLabels ==
    {"create_cadre", "create_cadre.insert", "update_cadre", "create_rule", "update_rule", "lend",
     "cancel_loan", "calculate", "settings", "settings.save"}

CalculateLabels ==
    {"calculate.business", "calculate.employees", "calculate.cadres", "calculate.loans",
     "calculate.store"}

HandLabels ==
    UserSaves \cup BusinessSaves \cup HiringLabels \cup SavingLabels \cup AskingLabels
        \cup CalculateLabels \cup {"update", "cancel_loan.save"}

OwnRequest(c) ==
    /\ \A asking \in Asking : pc[c] = asking[1] => req[c].op = asking[2]
    /\ pc[c] \in HiringLabels => req[c].op \in {"hire", "import"}
    /\ pc[c] = "lend" => req[c].amount >= 1 /\ req[c].monthly >= 1

\* A row that is to be written back is good.
GoodChange(row) == IsEmployee(row) /\ (row.rent # Nothing => row.rent \in Int)
RowInHand(c) ==
    /\ pc[c] \in UserSaves => mem[c].row.on \subseteq {"verified", "accepted"}
    /\ pc[c] \in BusinessSaves => mem[c].row.on \subseteq BusinessFlags /\ PaysInNaira(mem[c].row)
    /\ pc[c] \in SavingLabels \cup {"update"} => GoodChange(mem[c].row)
    /\ pc[c] \in SavingLabels =>
           /\ {"id", "row"} \subseteq DOMAIN mem[c]
           /\ mem[c].id \in DOMAIN db.employees /\ db.employees[mem[c].id] # Nothing
    /\ pc[c] \in HiringLabels =>
           /\ {"on", "row"} \subseteq DOMAIN mem[c]
           /\ mem[c].row \in DOMAIN req[c].rows /\ mem[c].on \subseteq {"active", "checked"}
    /\ pc[c] = "cancel_loan.save" => GoodLoan(mem[c].row)

\* What a calculation has read by now.
Payable(staff) ==
    \A emp \in DOMAIN staff :
        /\ NaturalAmounts => ValuesIn(staff[emp].rules, Nat)
        /\ AmountsIn(staff[emp].components, Amount)
SlipInHand(c) ==
    /\ pc[c] \in CalculateLabels =>
           \A emp \in DOMAIN mem[c].adjustments : AmountsIn(mem[c].adjustments[emp], Int)
    /\ pc[c] \in CalculateLabels \ {"calculate.business"} => PaysInNaira(mem[c].business)
    /\ pc[c] \in {"calculate.cadres", "calculate.loans", "calculate.store"} =>
           /\ IsFiniteSet(DOMAIN mem[c].staff)
           /\ \A emp \in DOMAIN mem[c].staff : mem[c].staff[emp].rent \in Int
    /\ pc[c] \in {"calculate.loans", "calculate.store"} =>
           /\ {"adjustments", "business", "staff", "loans"} \subseteq DOMAIN mem[c]
           /\ Payable(mem[c].staff)
           /\ \A emp \in DOMAIN mem[c].loans : LoansIn(mem[c].loans[emp])
    /\ pc[c] = "calculate.store" => DOMAIN mem[c].loans = DOMAIN mem[c].staff

Hand(c) == OwnRequest(c) /\ RowInHand(c) /\ SlipInHand(c)

SlipInv == NullIsNoEmployee /\ SlipRows /\ \A c \in Calls : Hand(c)

-----------------------------------------------------------------------------
(* What a step does to the rows *)

\* A row stays, is good or is rolled back.
Tidy ==
    /\ DOMAIN db' = DOMAIN db
    /\ \A table \in SlipTables :
           /\ DOMAIN db'[table] = DOMAIN db[table]
           /\ \A id \in DOMAIN db[table] :
                  \/ db'[table][id] = db[table][id]
                  \/ GoodRow(table, db'[table][id])
                  \/ table \in {"businesses", "users"} /\ db'[table][id] = Nothing

LEMMA SameIsTidy ==
    ASSUME db' = db
    PROVE  Tidy
BY DEF Tidy

\* Writing a row that is good.
LEMMA PutIsTidy ==
    ASSUME SlipInv, NEW table, NEW id, NEW row, db' = Put(table, id, row),
           table \in SlipTables => (id \in DOMAIN db[table] => GoodRow(table, row))
    PROVE  Tidy
<1>1. DOMAIN db' = DOMAIN db
    BY DEF Put
<1>2. ASSUME NEW other \in SlipTables
      PROVE  /\ DOMAIN db'[other] = DOMAIN db[other]
             /\ \A i \in DOMAIN db[other] :
                    db'[other][i] = db[other][i] \/ GoodRow(other, db'[other][i])
    <2>1. other \in DOMAIN db
        BY DEF SlipInv, SlipRows
    <2>2. CASE other # table
        BY <2>1, <2>2 DEF Put
    <2> QED
        BY <2>1, <2>2 DEF Put
<1> QED
    BY <1>1, <1>2 DEF Tidy

\* Setting the flag of a deleted cadre or rule.
LEMMA DeleteIsTidy ==
    ASSUME SlipInv, NEW table \in {"cadres", "rules"}, NEW id \in DOMAIN db[table],
           db[table][id] # Nothing, db' = Delete(table, id)
    PROVE  Tidy
<1>1. PICK row, deleted : row = db[table][id] /\ deleted = [row EXCEPT !.deleted = TRUE]
    OBVIOUS
<1>2. db' = Put(table, id, deleted)
    BY <1>1 DEF Delete, Put
<1>3. GoodRow(table, row)
    BY <1>1 DEF SlipInv, SlipRows, SlipTables
<1>4. CASE table = "cadres"
    <2>1. GoodCadre(row)
        BY <1>3, <1>4 DEF GoodRow
    <2>2. DOMAIN deleted = DOMAIN row /\ deleted.components = row.components
        BY <1>1, <2>1 DEF GoodCadre, IsCadre
    <2>3. GoodCadre(deleted)
        BY <2>1, <2>2 DEF GoodCadre, IsCadre
    <2> QED
        BY <1>2, <1>4, <2>3, PutIsTidy DEF GoodRow
<1>5. CASE table = "rules"
    <2>1. GoodRule(row)
        BY <1>3, <1>5 DEF GoodRow
    <2>2. DOMAIN deleted = DOMAIN row /\ deleted.value = row.value
        BY <1>1, <2>1 DEF GoodRule, IsRule
    <2>3. GoodRule(deleted)
        BY <2>1, <2>2 DEF GoodRule, IsRule
    <2> QED
        BY <1>2, <1>5, <2>3, PutIsTidy DEF GoodRow
<1> QED
    BY <1>4, <1>5

\* A rollback takes back businesses and users, and nothing else.
LEMMA RollbackIsTidy ==
    ASSUME SlipInv, NEW calls, db' = RolledBack(calls)
    PROVE  Tidy
<1>1. DOMAIN db' = DOMAIN db
    BY DEF RolledBack
<1>2. ASSUME NEW table \in SlipTables
      PROVE  /\ DOMAIN db'[table] = DOMAIN db[table]
             /\ \A id \in DOMAIN db[table] :
                    \/ db'[table][id] = db[table][id]
                    \/ table \in {"businesses", "users"} /\ db'[table][id] = Nothing
    <2>1. table \in DOMAIN db /\ {"businesses", "users"} \subseteq DOMAIN db
        BY DEF SlipInv, SlipRows, SlipTables
    <2>2. CASE table \notin {"businesses", "users"}
        BY <2>1, <2>2 DEF RolledBack
    <2>3. CASE table = "businesses"
        BY <2>1, <2>3 DEF RolledBack
    <2>4. CASE table = "users"
        BY <2>1, <2>4 DEF RolledBack
    <2> QED
        BY <2>2, <2>3, <2>4
<1> QED
    BY <1>1, <1>2 DEF Tidy

\* Steps that write none of these tables.
Unwritten ==
    /\ DOMAIN db' = DOMAIN db
    /\ db'.businesses = db.businesses /\ db'.users = db.users /\ db'.employees = db.employees
    /\ db'.cadres = db.cadres /\ db'.rules = db.rules /\ db'.loans = db.loans
    /\ db'.runs = db.runs

LEMMA UnwrittenIsTidy ==
    ASSUME Unwritten
    PROVE  Tidy
<1>1. \A table \in SlipTables : db'[table] = db[table]
    BY DEF Unwritten, SlipTables
<1> QED
    BY <1>1 DEF Unwritten, Tidy

\* Rows that are good stay so, and no employee vanishes.
LEMMA TidyKeepsRows ==
    ASSUME SlipInv, Tidy
    PROVE  /\ SlipRows'
           /\ DOMAIN db'.employees = DOMAIN db.employees
           /\ \A emp \in DOMAIN db.employees :
                  db.employees[emp] # Nothing => db'.employees[emp] # Nothing
<1>1. SlipRows'
    BY DEF SlipInv, SlipRows, Tidy
<1>2. \A emp \in DOMAIN db.employees :
          db'.employees[emp] = db.employees[emp] \/ GoodRow("employees", db'.employees[emp])
    BY DEF Tidy, SlipTables
<1>3. ~GoodRow("employees", Nothing)
    BY DEF GoodRow, GoodEmployee, SlipInv, NullIsNoEmployee
<1>4. DOMAIN db'.employees = DOMAIN db.employees
    BY DEF Tidy, SlipTables
<1> QED
    BY <1>1, <1>2, <1>3, <1>4

\* What a call has in hand stays good while it stands still.
LEMMA HandStays ==
    ASSUME SlipInv, Tidy, req' = req, NEW c \in Calls, pc'[c] = pc[c], mem'[c] = mem[c]
    PROVE  Hand(c)'
<1>1. OwnRequest(c) /\ RowInHand(c) /\ SlipInHand(c)
    BY DEF SlipInv, Hand
<1>2. OwnRequest(c)'
    BY <1>1 DEF OwnRequest
<1>3. RowInHand(c)'
    BY <1>1, TidyKeepsRows DEF RowInHand
<1>4. SlipInHand(c)'
    BY <1>1 DEF SlipInHand
<1> QED
    BY <1>2, <1>3, <1>4 DEF Hand

\* At most labels a call has nothing in hand that matters here.
LEMMA HandsFree ==
    ASSUME NEW c \in Calls, pc'[c] \notin HandLabels
    PROVE  Hand(c)'
<1> USE DEF HandLabels
<1>1. OwnRequest(c)'
    BY DEF OwnRequest, AskingLabels, Asking
<1>2. RowInHand(c)'
    BY DEF RowInHand
<1>3. SlipInHand(c)'
    BY DEF SlipInHand, CalculateLabels
<1> QED
    BY <1>1, <1>2, <1>3 DEF Hand

\* What is left to prove of a step of one call: the rows, and what the call has in hand then.
LEMMA TidyKeeps ==
    ASSUME SlipInv, NEW c \in Calls, Moves(c), Tidy, Hand(c)'
    PROVE  SlipInv'
<1>1. \A d \in Calls : Hand(d)'
    BY HandStays DEF Moves
<1> QED
    BY <1>1, TidyKeepsRows DEF SlipInv, NullIsNoEmployee

\* A step to a label where nothing is in hand.
Passes(c) == Moves(c) /\ Tidy /\ pc'[c] \notin HandLabels

LEMMA PassesKeeps ==
    ASSUME SlipInv, NEW c \in Calls, Passes(c)
    PROVE  SlipInv'
BY HandsFree, TidyKeeps DEF Passes

-----------------------------------------------------------------------------
(* Steps that pass *)

\* Leave and the handlers that only read write none of these tables.
LEMMA LeavePasses ==
    ASSUME Inv, SlipInv, NEW c \in Calls, req' = req, TakeLeave(c) \/ Look(c)
    PROVE  Passes(c)
<1>1. DOMAIN pc = Calls /\ DOMAIN mem = Calls /\ DOMAIN answer = Calls /\ SlipTables \subseteq DOMAIN db
    BY DEF Inv, Rowwise, Shape, SlipInv, SlipRows
<1> DEFINE Quietly == Moves(c) /\ Unwritten /\ pc'[c] \notin HandLabels
<1> USE DEF Moves, Unwritten, SlipTables, HandLabels, UserSaves, BusinessSaves, HiringLabels,
        SavingLabels, AskingLabels, CalculateLabels, At, Handle, Loads, Reads, Answers, Ends, Goes,
        Skips, Writes, WritesAndAnswers, Put
<1>2. CASE TakeLeave(c)
    <2>1. Quietly
        BY <1>1, <1>2 DEF TakeLeave,
        HandleCreateLeaveType, CreateLeaveType, HandleSubmitLeave, SubmitFindsBalance,
        SubmitCreatesBalance, SubmitInserts, HandleApproveLeave, FindsPending,
        ApproveFindsLeave, ApproveChecksBalance, ApproveSaves, ApproveDeducts,
        HandleRejectLeave, RejectFindsLeave, RejectSaves
    <2> QED
        BY ONLY <2>1, UnwrittenIsTidy DEF Passes
<1>3. CASE Look(c)
    <2>1. Quietly
        BY <1>1, <1>3 DEF Look,
        GetEmployeeByID, ListEmployees, GetCadreByID, ListAllCadres, ListDeductionRules,
        ListLoans, ListLeaveTypes, ListLeaveRequests, GetLeaveBalances, GetProfile,
        GetSettings, GetPlans, GetSubscription, ListInvoices, ListPayrollRuns, GetStats,
        ListOrganizations, HandlePAYEReport, HandlePensionSchedule, HandleNHFSchedule,
        HandleBankSchedule, HandlePayrollSummary, HandleAllPayslips, HandlePayslip,
        GetPayrollRunByID, GetPayrollStatus, GetPayslips, HandleDashboard,
        GetSummaryEmployees, CountsEmployees, GetSummaryRuns, GetSummaryEnds, Shows,
        Lookup, Report
    <2> QED
        BY ONLY <2>1, UnwrittenIsTidy DEF Passes
<1> QED
    BY <1>2, <1>3

\* The end of a call, with or without a rollback.
LEMMA FailsPasses ==
    ASSUME Inv, SlipInv, NEW c \in Calls, NEW result, req' = req, Fails(c, result)
    PROVE  Passes(c)
<1>1. Moves(c) /\ pc'[c] = "done"
    BY DEF Fails, Ends, Goes, Moves, Inv, Rowwise, Shape
<1>2. Tidy
    BY RollbackIsTidy DEF Fails
<1> QED
    BY <1>1, <1>2 DEF Passes, HandLabels, UserSaves, BusinessSaves, HiringLabels, SavingLabels,
        AskingLabels, CalculateLabels

LEMMA AnswersPasses ==
    ASSUME Inv, SlipInv, NEW c \in Calls, NEW result, req' = req, Answers(c, result)
    PROVE  Passes(c)
<1>1. Moves(c) /\ pc'[c] = "done" /\ db' = db
    BY DEF Answers, Ends, Goes, Moves, Inv, Rowwise, Shape
<1> QED
    BY <1>1, SameIsTidy DEF Passes, HandLabels, UserSaves, BusinessSaves, HiringLabels, SavingLabels,
        AskingLabels, CalculateLabels

\* The last statement of a call.
LEMMA WritesAndAnswersPasses ==
    ASSUME Inv, SlipInv, NEW c \in Calls, NEW tables, NEW result, req' = req,
           WritesAndAnswers(c, tables, result), db' = tables => Tidy
    PROVE  Passes(c)
<1>1. Moves(c) /\ pc'[c] = "done" /\ db' = tables
    BY DEF WritesAndAnswers, Ends, Goes, Moves, Inv, Rowwise, Shape
<1> QED
    BY <1>1 DEF Passes, HandLabels, UserSaves, BusinessSaves, HiringLabels, SavingLabels,
        AskingLabels, CalculateLabels

\* The steps of Accounts that write neither a user nor a business nor a cadre.
AccountsPassing(c) ==
    \/ HandleRegister(c) \/ RegisterAssignsPlan(c)
    \/ HandleLogin(c) \/ Login(c) \/ HandleEmployeeLogin(c) \/ EmployeeLogin(c)
    \/ HandleCreateLogin(c)
    \/ HandleInvite(c) \/ InviteLooksForUser(c) \/ InviteAnswers(c) \/ HandleAccept(c)
    \/ HandleForgot(c) \/ HandleReset(c) \/ HandleResend(c) \/ HandleVerify(c)
    \/ HandleSuspend(c) \/ HandleActivate(c)
    \/ HandleSubscribe(c) \/ SubscribeFindsPlan(c) \/ AssignFreePlan(c)
    \/ InitializeTransaction(c) \/ SubscribeCreates(c) \/ SubscribeInvoices(c)
    \/ HandleCancelSubscription(c) \/ CancelFindsSubscription(c) \/ CancelSaves(c)

\* The steps of Accounts that write other tables.
LEMMA AccountsPass ==
    ASSUME Inv, SlipInv, NEW c \in Calls, req' = req, AccountsPassing(c)
    PROVE  Passes(c)
<1>1. DOMAIN pc = Calls /\ DOMAIN mem = Calls /\ DOMAIN answer = Calls /\ SlipTables \subseteq DOMAIN db
    BY DEF Inv, Rowwise, Shape, SlipInv, SlipRows
<1>2. Moves(c) /\ Unwritten /\ pc'[c] \notin HandLabels
    <2> USE DEF Moves, Unwritten, SlipTables, HandLabels, UserSaves, BusinessSaves, HiringLabels,
            SavingLabels, AskingLabels, CalculateLabels, At, Handle, Loads, Reads, Answers, Ends,
            Goes, Skips, Writes, WritesAndAnswers, Put
    <2>1. CASE HandleRegister(c) \/ RegisterAssignsPlan(c)
        BY <1>1, <2>1 DEF HandleRegister, RegisterAssignsPlan
    <2>2. CASE HandleLogin(c) \/ Login(c) \/ HandleEmployeeLogin(c) \/ EmployeeLogin(c) \/ HandleCreateLogin(c)
        BY <1>1, <2>2 DEF HandleLogin, Login, HandleEmployeeLogin, EmployeeLogin, HandleCreateLogin
    <2>3. CASE HandleInvite(c) \/ InviteLooksForUser(c) \/ InviteAnswers(c) \/ HandleAccept(c)
        BY <1>1, <2>3 DEF HandleInvite, InviteLooksForUser, InviteAnswers, HandleAccept
    <2>4. CASE HandleForgot(c) \/ HandleReset(c) \/ HandleResend(c) \/ HandleVerify(c)
        BY <1>1, <2>4 DEF HandleForgot, HandleReset, HandleResend, HandleVerify
    <2>5. CASE HandleSuspend(c) \/ HandleActivate(c)
        BY <1>1, <2>5 DEF HandleSuspend, HandleActivate
    <2>6. CASE \/ HandleSubscribe(c) \/ SubscribeFindsPlan(c) \/ AssignFreePlan(c)
               \/ InitializeTransaction(c) \/ SubscribeCreates(c) \/ SubscribeInvoices(c)
        BY <1>1, <2>6 DEF HandleSubscribe, SubscribeFindsPlan, AssignFreePlan,
            InitializeTransaction, SubscribeCreates, SubscribeInvoices
    <2>7. CASE HandleCancelSubscription(c) \/ CancelFindsSubscription(c) \/ CancelSaves(c)
        BY <1>1, <2>7 DEF HandleCancelSubscription, CancelFindsSubscription, CancelSaves
    <2> QED
        BY <2>1, <2>2, <2>3, <2>4, <2>5, <2>6, <2>7 DEF AccountsPassing
<1> QED
    BY <1>2, UnwrittenIsTidy DEF Passes

-----------------------------------------------------------------------------
(* Users and businesses *)

\* What is found is there; registrations may find what only they see.
LEMMA UserRowIsGood ==
    ASSUME SlipInv, NEW id \in DOMAIN db.users, db.users[id] # Nothing
    PROVE  IsUser(db.users[id])
<1>1. GoodRow("users", db.users[id])
    BY DEF SlipInv, SlipRows, SlipTables
<1> QED
    BY <1>1 DEF GoodRow

LEMMA BusinessRowIsGood ==
    ASSUME SlipInv, NEW id \in DOMAIN db.businesses, db.businesses[id] # Nothing
    PROVE  GoodBusiness(db.businesses[id])
<1>1. GoodRow("businesses", db.businesses[id])
    BY DEF SlipInv, SlipRows, SlipTables
<1> QED
    BY <1>1 DEF GoodRow

\* GORM's Updates of a row by one that is good, or has its flags at least.
LEMMA UpdateUserIsTidy ==
    ASSUME SlipInv, NEW id \in DOMAIN db.users, db.users[id] # Nothing, NEW user,
           "on" \in DOMAIN user, user.on \subseteq {"verified", "accepted"},
           db' = UpdateUser(id, user)
    PROVE  Tidy
<1>1. PICK new, row : /\ new = UserFromDomain(user)
                      /\ row = Updates(db.users[id], new)
    OBVIOUS
<1>2. db' = Put("users", id, row)
    BY <1>1 DEF UpdateUser
<1>3. DOMAIN db.users[id] = UserColumns /\ db.users[id].on \subseteq {"verified", "accepted"}
    BY UserRowIsGood DEF IsUser
<1>4. new.on = user.on
    BY <1>1 DEF UserFromDomain, UserColumns
<1>5. DOMAIN row = UserColumns /\ row.on = db.users[id].on \cup new.on
    BY <1>1, <1>3 DEF Updates, UserColumns
<1>6. IsUser(row)
    BY <1>3, <1>4, <1>5 DEF IsUser
<1> QED
    BY <1>2, <1>6, PutIsTidy DEF GoodRow

LEMMA UpdateBusinessIsTidy ==
    ASSUME SlipInv, NEW id \in DOMAIN db.businesses, db.businesses[id] # Nothing, NEW business,
           business.on \subseteq BusinessFlags, PaysInNaira(business),
           db' = UpdateBusiness(id, business)
    PROVE  Tidy
<1>1. PICK row : row = Updates(db.businesses[id], business)
    OBVIOUS
<1>2. db' = Put("businesses", id, row)
    BY <1>1 DEF UpdateBusiness
<1>3. /\ DOMAIN db.businesses[id] = {"admin", "on", "tier", "status", "currency"}
      /\ db.businesses[id].on \subseteq BusinessFlags /\ PaysInNaira(db.businesses[id])
    BY BusinessRowIsGood DEF GoodBusiness, IsBusiness
<1>4. /\ DOMAIN row = {"admin", "on", "tier", "status", "currency"}
      /\ row.on = db.businesses[id].on \cup business.on
      /\ row.currency = IF business.currency = Nothing THEN db.businesses[id].currency
                        ELSE business.currency
    BY <1>1, <1>3 DEF Updates
<1>5. GoodBusiness(row)
    BY <1>3, <1>4 DEF GoodBusiness, IsBusiness, PaysInNaira
<1> QED
    BY <1>2, <1>5, PutIsTidy DEF GoodRow

\* The statements that write back a user or a business.
LEMMA SavesPass ==
    ASSUME Inv, SlipInv, NEW c \in Calls, req' = req, WritesBack(c)
    PROVE  Passes(c)
<1>1. Hand(c) /\ Memory(c) /\ req \in Workloads
    BY DEF SlipInv, Inv, Call, Rowwise, Shape
<1>2. ASSUME pc[c] \in UserSaves
      PROVE  /\ mem[c].id \in DOMAIN db.users /\ db.users[mem[c].id] # Nothing
             /\ DOMAIN mem[c].row = UserColumns
             /\ mem[c].row.on \subseteq {"verified", "accepted"}
    BY <1>1, <1>2 DEF Memory, Visible, Hand, RowInHand
<1>3. ASSUME pc[c] \in BusinessSaves
      PROVE  /\ mem[c].id \in DOMAIN db.businesses /\ db.businesses[mem[c].id] # Nothing
             /\ DOMAIN mem[c].row = BusinessColumns
             /\ mem[c].row.on \subseteq BusinessFlags /\ PaysInNaira(mem[c].row)
    BY <1>1, <1>3 DEF Memory, Visible, Hand, RowInHand
<1>4. ASSUME pc[c] \in UserSaves, NEW user, "on" \in DOMAIN user,
             user.on \subseteq {"verified", "accepted"},
             WritesAndAnswers(c, UpdateUser(mem[c].id, user), "ok")
      PROVE  Passes(c)
    BY <1>2, <1>4, UpdateUserIsTidy, WritesAndAnswersPasses
<1>5. ASSUME pc[c] \in BusinessSaves, NEW business, business.on \subseteq BusinessFlags,
             PaysInNaira(business),
             WritesAndAnswers(c, UpdateBusiness(mem[c].id, business), "ok")
      PROVE  Passes(c)
    BY <1>3, <1>5, UpdateBusinessIsTidy, WritesAndAnswersPasses
<1>6. CASE \/ AcceptSavesPassword(c) \/ ForgotSavesToken(c) \/ ResetSavesPassword(c)
           \/ ResendSavesToken(c) \/ VerifySavesUser(c)
    <2>1. pc[c] \in UserSaves
        BY <1>6 DEF AcceptSavesPassword, ForgotSavesToken, ResetSavesPassword,
            ResendSavesToken, VerifySavesUser, At, UserSaves
    <2>2. PICK row, accepted, forgot, reset, resent, verified :
              /\ row = mem[c].row
              /\ accepted = [row EXCEPT !.hash = req[c].password, !.invite = Nothing,
                                        !.on = @ \cup {"accepted", "verified"}]
              /\ forgot = [row EXCEPT !.reset = c]
              /\ reset = [row EXCEPT !.hash = req[c].password, !.reset = Nothing]
              /\ resent = [row EXCEPT !.verify = c]
              /\ verified = [row EXCEPT !.on = @ \cup {"verified"}, !.verify = Nothing]
        OBVIOUS
    <2>3. DOMAIN row = UserColumns /\ row.on \subseteq {"verified", "accepted"}
        BY <1>2, <2>1, <2>2
    <2>4. \A user \in {accepted, forgot, reset, resent, verified} : "on" \in DOMAIN user
        BY <2>2, <2>3 DEF UserColumns
    <2>5. /\ accepted.on = row.on \cup {"accepted", "verified"}
          /\ forgot.on = row.on /\ reset.on = row.on /\ resent.on = row.on
          /\ verified.on = row.on \cup {"verified"}
        BY <2>2, <2>3 DEF UserColumns
    <2>6. \A user \in {accepted, forgot, reset, resent, verified} :
              user.on \subseteq {"verified", "accepted"}
        BY <2>3, <2>5
    <2>7. \E user \in {accepted, forgot, reset, resent, verified} :
              WritesAndAnswers(c, UpdateUser(mem[c].id, user), "ok")
        BY <1>6, <2>2 DEF AcceptSavesPassword, ForgotSavesToken, ResetSavesPassword,
            ResendSavesToken, VerifySavesUser
    <2> QED
        BY <1>4, <2>1, <2>4, <2>6, <2>7
<1>7. CASE SettingsSave(c)
    <2>1. pc[c] = "settings.save" /\ req[c].enable \subseteq BusinessFlags
        BY <1>1, <1>7, SlipAssumption DEF SettingsSave, At, Hand, OwnRequest, Asking
    <2>2. PICK business : business = [mem[c].row EXCEPT !.on = (@ \cup req[c].enable) \ req[c].disable]
        OBVIOUS
    <2>3. /\ business.on = (mem[c].row.on \cup req[c].enable) \ req[c].disable
          /\ business.currency = mem[c].row.currency
        BY <1>3, <2>1, <2>2 DEF BusinessSaves, BusinessColumns
    <2>4. business.on \subseteq BusinessFlags /\ PaysInNaira(business)
        BY <1>3, <2>1, <2>3 DEF BusinessSaves, PaysInNaira
    <2>5. WritesAndAnswers(c, UpdateBusiness(mem[c].id, business), "ok")
        BY <1>7, <2>2 DEF SettingsSave
    <2> QED
        BY <1>5, <2>1, <2>4, <2>5 DEF BusinessSaves
<1>8. CASE \/ SuspendOrganization(c) \/ ActivateOrganization(c) \/ SubscribeSaves(c)
           \/ CancelDowngrades(c)
    <2>1. pc[c] \in BusinessSaves
        BY <1>8 DEF SuspendOrganization, ActivateOrganization, SubscribeSaves,
            CancelDowngrades, At, BusinessSaves
    <2>2. PICK row, suspended, active, pending, free :
              /\ row = mem[c].row
              /\ suspended = [row EXCEPT !.on = @ \cup {"suspended"}, !.status = "suspended"]
              /\ active = [row EXCEPT !.on = @ \ {"suspended"}, !.status = "active"]
              /\ pending = [row EXCEPT !.tier = Tier(c), !.status = "pending"]
              /\ free = [row EXCEPT !.tier = "free", !.status = "active"]
        OBVIOUS
    <2>3. /\ DOMAIN row = BusinessColumns /\ row.on \subseteq BusinessFlags /\ PaysInNaira(row)
        BY <1>3, <2>1, <2>2
    <2>4. /\ suspended.on = row.on \cup {"suspended"} /\ active.on = row.on \ {"suspended"}
          /\ pending.on = row.on /\ free.on = row.on
        BY <2>2, <2>3 DEF BusinessColumns
    <2>5. \A business \in {suspended, active, pending, free} : business.currency = row.currency
        BY <2>2, <2>3 DEF BusinessColumns
    <2>6. \A business \in {suspended, active, pending, free} :
              business.on \subseteq BusinessFlags /\ PaysInNaira(business)
        BY <2>3, <2>4, <2>5 DEF BusinessFlags, PaysInNaira
    <2>7. \E business \in {suspended, active, pending, free} :
              WritesAndAnswers(c, UpdateBusiness(mem[c].id, business), "ok")
        BY <1>8, <2>2 DEF SuspendOrganization, ActivateOrganization, SubscribeSaves,
            CancelDowngrades
    <2> QED
        BY <1>5, <2>1, <2>6, <2>7
<1> QED
    BY <1>6, <1>7, <1>8 DEF WritesBack

\* A row that is read to be written back.
LEMMA LoadsUserKeepsSlips ==
    ASSUME Inv, SlipInv, NEW c \in Calls, NEW STATE id, NEW r, NEW label \in UserSaves, req' = req,
           id # Nothing => id \in Visible("users"),
           Loads(c, "users", id, label, r)
    PROVE  SlipInv'
<1>1. CASE id = Nothing
    BY <1>1, AnswersPasses, PassesKeeps DEF Loads
<1>2. CASE id # Nothing
    <2>1. /\ Moves(c) /\ db' = db /\ pc'[c] = label
          /\ mem'[c] = [id |-> id, row |-> db.users[id]]
        BY <1>2 DEF Loads, Reads, Goes, Moves, Inv, Rowwise, Shape
    <2>2. db.users[id].on \subseteq {"verified", "accepted"}
        BY <1>2, UserRowIsGood DEF IsUser, Visible
    <2>3. OwnRequest(c)'
        BY <2>1 DEF OwnRequest, Asking, UserSaves, HiringLabels
    <2>4. RowInHand(c)'
        BY <2>1, <2>2 DEF RowInHand, UserSaves, BusinessSaves, SavingLabels, HiringLabels
    <2>5. SlipInHand(c)'
        BY <2>1 DEF SlipInHand, UserSaves, CalculateLabels
    <2> QED
        BY <2>1, <2>3, <2>4, <2>5, SameIsTidy, TidyKeeps DEF Hand
<1> QED
    BY <1>1, <1>2

LEMMA LoadsBusinessKeepsSlips ==
    ASSUME Inv, SlipInv, NEW c \in Calls, NEW STATE id, NEW r, NEW label \in BusinessSaves,
           req' = req, label = "settings.save" => pc[c] = "settings",
           id # Nothing => id \in Visible("businesses"),
           Loads(c, "businesses", id, label, r)
    PROVE  SlipInv'
<1>1. CASE id = Nothing
    BY <1>1, AnswersPasses, PassesKeeps DEF Loads
<1>2. CASE id # Nothing
    <2>1. /\ Moves(c) /\ db' = db /\ pc'[c] = label
          /\ mem'[c] = [id |-> id, row |-> db.businesses[id]]
        BY <1>2 DEF Loads, Reads, Goes, Moves, Inv, Rowwise, Shape
    <2>2. db.businesses[id].on \subseteq BusinessFlags /\ PaysInNaira(db.businesses[id])
        BY <1>2, BusinessRowIsGood DEF GoodBusiness, IsBusiness, Visible
    <2>3. label = "settings.save" => req[c].op = "settings"
        BY DEF SlipInv, Hand, OwnRequest, Asking
    <2>4. OwnRequest(c)'
        BY <2>1, <2>3 DEF OwnRequest, Asking, BusinessSaves, HiringLabels
    <2>5. RowInHand(c)'
        BY <2>1, <2>2 DEF RowInHand, UserSaves, BusinessSaves, SavingLabels, HiringLabels, PaysInNaira
    <2>6. SlipInHand(c)'
        BY <2>1 DEF SlipInHand, BusinessSaves, CalculateLabels
    <2> QED
        BY <2>1, <2>4, <2>5, <2>6, SameIsTidy, TidyKeeps DEF Hand
<1> QED
    BY <1>1, <1>2

\* The statements that read what these write back.
LEMMA RereadsKeepSlips ==
    ASSUME Inv, SlipInv, NEW c \in Calls, req' = req, Rereads(c)
    PROVE  SlipInv'
<1>1. ASSUME pc[c] \in Finds PROVE c \notin open
    BY <1>1, AtFinds
<1>2. ASSUME NEW r, Answers(c, r)
      PROVE  SlipInv'
    BY <1>2, AnswersPasses, PassesKeeps
<1> USE DEF At, Finds, UserSaves, BusinessSaves
<1>3. CASE AcceptFindsUser(c)
    BY <1>1, <1>2, <1>3, Found, LoadsUserKeepsSlips DEF AcceptFindsUser
<1>4. CASE ForgotFindsUser(c)
    BY <1>1, <1>2, <1>4, Found, LoadsUserKeepsSlips DEF ForgotFindsUser
<1>5. CASE ResetFindsUser(c)
    BY <1>1, <1>2, <1>5, Found, LoadsUserKeepsSlips DEF ResetFindsUser
<1>6. CASE ResendFindsUser(c)
    BY <1>1, <1>2, <1>6, Found, LoadsUserKeepsSlips DEF ResendFindsUser
<1>7. CASE VerifyFindsUser(c)
    BY <1>1, <1>2, <1>7, Found, LoadsUserKeepsSlips DEF VerifyFindsUser
<1>8. CASE SettingsRead(c) \/ SuspendReads(c) \/ ActivateReads(c) \/ SubscribeReads(c)
               \/ CancelReads(c)
    BY <1>1, <1>8, Found, LoadsBusinessKeepsSlips DEF SettingsRead, SuspendReads, ActivateReads,
        SubscribeReads, CancelReads, ReadsBusiness
<1> QED
    BY <1>3, <1>4, <1>5, <1>6, <1>7, <1>8 DEF Rereads

LEMMA AsksForSettings ==
    ASSUME Inv, SlipInv, NEW c \in Calls, req' = req, HandleSettings(c)
    PROVE  SlipInv'
<1>1. CASE \E r : Answers(c, r)
    BY <1>1, AnswersPasses, PassesKeeps
<1>2. CASE Skips(c, "settings")
    <2>1. Moves(c) /\ db' = db /\ pc'[c] = "settings" /\ req[c].op = "settings"
        BY <1>2 DEF HandleSettings, Handle, Skips, Writes, Goes, Moves, Inv, Rowwise, Shape
    <2>2. Hand(c)'
        BY <2>1 DEF Hand, OwnRequest, Asking, RowInHand, SlipInHand, UserSaves, BusinessSaves,
            SavingLabels, HiringLabels, CalculateLabels
    <2> QED
        BY <2>1, <2>2, SameIsTidy, TidyKeeps
<1> QED
    BY <1>1, <1>2 DEF HandleSettings, Handle

-----------------------------------------------------------------------------
(* Registrations, invitations and logins *)

\* The insertion of a user, which a conflict ends.
LEMMA InsertsUser ==
    ASSUME Inv, SlipInv, NEW c \in Calls, NEW from, NEW user, NEW to, req' = req,
           "on" \in DOMAIN user, user.on \subseteq {"verified", "accepted"},
           InsertUser(c, from, user, to)
    PROVE  \/ Passes(c)
           \/ Moves(c) /\ Tidy /\ pc'[c] = to /\ mem'[c] = mem[c]
<1>1. CASE Fails(c, "conflict")
    BY <1>1, FailsPasses
<1>2. CASE Writes(c, Put("users", c, UserFromDomain(user)), to)
    <2>1. PICK row : row = UserFromDomain(user)
        OBVIOUS
    <2>2. IsUser(row)
        BY <2>1 DEF UserFromDomain, UserColumns, IsUser
    <2>3. Tidy
        BY <1>2, <2>1, <2>2, PutIsTidy DEF Writes, GoodRow
    <2> QED
        BY <1>2, <2>3 DEF Writes, Goes, Moves, Inv, Rowwise, Shape
<1> QED
    BY <1>1, <1>2 DEF InsertUser

LEMMA AmountSet ==
    /\ Nat \subseteq Amount /\ Amount \subseteq Int
    /\ NaturalAmounts => Amount = Nat
BY DEF Amount

\* The cadre that a registration creates.
LEMMA StandardIsGood ==
    ASSUME NEW business
    PROVE  GoodCadre(StandardCadre(business))
<1>1. PICK cadre, list : cadre = StandardCadre(business) /\ list = cadre.components
    OBVIOUS
<1>2. list = <<[name |-> "basic", type |-> "basic", amount |-> 15],
               [name |-> "housing", type |-> "housing", amount |-> 5],
               [name |-> "transport", type |-> "transport", amount |-> 3]>>
    BY <1>1 DEF StandardCadre
<1>3. DOMAIN list = 1 .. 3
    BY <1>2
<1>4. \A i \in 1 .. 3 : DOMAIN list[i] = {"name", "type", "amount"} /\ list[i].amount \in Nat
    <2>1. \A i \in 1 .. 3 : i = 1 \/ i = 2 \/ i = 3
        OBVIOUS
    <2> QED
        BY <1>2, <2>1
<1>5. AmountsIn(list, Amount)
    BY <1>3, <1>4, AmountSet DEF AmountsIn, IsList
<1>6. DOMAIN cadre = {"business", "name", "components", "deleted"}
    BY <1>1 DEF StandardCadre
<1>7. list \in Seq(Range(list))
    <2>1. list \in [1 .. 3 -> Range(list)]
        BY <1>2, <1>3 DEF Range
    <2> QED
        BY <2>1, ListMade
<1> QED
    BY <1>1, <1>3, <1>4, <1>5, <1>6, <1>7 DEF GoodCadre, IsCadre, IsComponent

\* The rows of a registration are as they have to be, and none is of Ghana.
LEMMA RegisterRows ==
    ASSUME Inv, SlipInv, NEW c \in Calls, pc[c] \in Registering
    PROVE  /\ c \in DOMAIN db.businesses /\ db.businesses[c] # Nothing
           /\ db' = Linked(c) => Tidy
           /\ db' = UpdateBusiness(c, [db.businesses[c] EXCEPT !.on = @ \cup {"vfd"}]) => Tidy
<1>1. c \in DOMAIN db.businesses /\ db.businesses[c] # Nothing
    BY DEF Inv, Rowwise, Shape, Call, OwnPath, Registration, RegisterLabels
<1>2. PICK row, linked, opened : /\ row = db.businesses[c]
                                 /\ linked = [row EXCEPT !.admin = c]
                                 /\ opened = [row EXCEPT !.on = @ \cup {"vfd"}]
    OBVIOUS
<1>3. /\ DOMAIN row = BusinessColumns /\ row.on \subseteq BusinessFlags /\ PaysInNaira(row)
    BY <1>1, <1>2, BusinessRowIsGood DEF GoodBusiness, IsBusiness, BusinessColumns
<1>4. /\ linked.on = row.on /\ linked.currency = row.currency
      /\ opened.on = row.on \cup {"vfd"} /\ opened.currency = row.currency
    BY <1>2, <1>3 DEF BusinessColumns
<1>5. /\ linked.on \subseteq BusinessFlags /\ opened.on \subseteq BusinessFlags
      /\ PaysInNaira(linked) /\ PaysInNaira(opened)
    BY <1>3, <1>4 DEF BusinessFlags, PaysInNaira
<1> QED
    BY <1>1, <1>2, <1>5, UpdateBusinessIsTidy DEF Linked

\* RegisterBusiness, with an update that aborts its transaction too.
LEMMA RegisterKeepsSlips ==
    ASSUME Inv, SlipInv, NEW c \in Calls, req' = req, Register(c) \/ RegisterAborts(c)
    PROVE  SlipInv'
<1>1. DOMAIN pc = Calls /\ DOMAIN mem = Calls /\ DOMAIN answer = Calls
    BY DEF Inv, Rowwise, Shape
<1>2. ASSUME Tidy, Moves(c),
             pc'[c] \in {"register.user", "register.link", "register.cadre", "register.plan",
                         "register.vfd", "register.commit", "resend"}
      PROVE  SlipInv'
    BY <1>2, PassesKeeps DEF Passes, HandLabels, UserSaves, BusinessSaves, HiringLabels,
        SavingLabels, AskingLabels, CalculateLabels
<1>3. CASE HandleRegister(c) \/ RegisterAssignsPlan(c)
    BY <1>3, AccountsPass, PassesKeeps DEF AccountsPassing
<1>4. CASE \E r : Fails(c, r)
    BY <1>4, FailsPasses, PassesKeeps
<1>5. CASE RegisterCreatesBusiness(c)
    <2>1. GoodRow("businesses", NewBusiness)
        BY DEF GoodRow, GoodBusiness, IsBusiness, NewBusiness, BusinessFlags, PaysInNaira
    <2>2. Tidy
        BY <1>5, <2>1, PutIsTidy DEF RegisterCreatesBusiness
    <2> QED
        BY <1>1, <1>2, <1>5, <2>2 DEF RegisterCreatesBusiness, Goes, Moves
<1>6. CASE RegisterCreatesAdmin(c)
    <2>1. PICK user : user = Admin(c)
        OBVIOUS
    <2>2. "on" \in DOMAIN user /\ user.on = {}
        BY <2>1 DEF Admin
    <2>3. InsertUser(c, "register.user", user, "register.link")
        BY <1>6, <2>1 DEF RegisterCreatesAdmin
    <2> QED
        BY <1>2, <2>2, <2>3, InsertsUser, PassesKeeps
<1>7. CASE RegisterLinksAdmin(c)
    <2>1. Tidy
        BY <1>7, RegisterRows DEF RegisterLinksAdmin, At, Writes, Registering
    <2> QED
        BY <1>1, <1>2, <1>7, <2>1 DEF RegisterLinksAdmin, Writes, Goes, Moves
<1>8. CASE RegisterCreatesCadre(c)
    <2>1. Tidy
        BY <1>8, StandardIsGood, PutIsTidy, SameIsTidy DEF RegisterCreatesCadre, Skips, Writes, GoodRow
    <2> QED
        BY <1>1, <1>2, <1>8, <2>1 DEF RegisterCreatesCadre, Skips, Writes, Goes, Moves
<1>9. CASE RegisterOpensAccount(c) /\ ~\E r : Fails(c, r)
    <2>1. Tidy
        BY <1>9, RegisterRows, SameIsTidy DEF RegisterOpensAccount, At, Skips, Writes, Registering
    <2> QED
        BY <1>1, <1>2, <1>9, <2>1 DEF RegisterOpensAccount, Skips, Writes, Goes, Moves
<1>10. CASE RegisterCommits(c) /\ ~\E r : Fails(c, r)
    <2>1. Tidy
        BY <1>10, SameIsTidy DEF RegisterCommits
    <2> QED
        BY <1>1, <1>2, <1>10, <2>1 DEF RegisterCommits, Goes, Moves
<1>11. CASE RegisterAborts(c)
    <2>1. Moves(c) /\ pc'[c] \in {"register.cadre", "register.vfd"}
        BY <1>1, <1>11 DEF RegisterAborts, Goes, Moves
    <2>2. CASE At(c, "register.link") /\ db' = Linked(c)
        BY <1>2, <2>1, <2>2, RegisterRows DEF At, Registering
    <2>3. CASE db' = Put("subscriptions", c, FreeSubscription(c))
        <3>1. Tidy
            BY <2>3, PutIsTidy DEF SlipTables
        <3> QED
            BY <1>2, <2>1, <3>1
    <2> QED
        BY <1>11, <2>2, <2>3 DEF RegisterAborts
<1> QED
    BY <1>3, <1>4, <1>5, <1>6, <1>7, <1>8, <1>9, <1>10, <1>11 DEF Register

-----------------------------------------------------------------------------
(* Employees *)

LEMMA EmployeeRowIsGood ==
    ASSUME SlipInv, NEW id \in DOMAIN db.employees, db.employees[id] # Nothing
    PROVE  GoodEmployee(db.employees[id]) /\ GoodChange(db.employees[id])
<1>1. GoodRow("employees", db.employees[id])
    BY DEF SlipInv, SlipRows, SlipTables
<1> QED
    BY <1>1 DEF GoodRow, GoodEmployee, GoodChange

\* A row in hand that is about to be written back.
LEMMA SavingHand ==
    ASSUME SlipInv, NEW c \in Calls, pc'[c] \in SavingLabels \cup {"update"}, GoodChange(mem'[c].row),
           pc'[c] \in SavingLabels =>
               /\ {"id", "row"} \subseteq DOMAIN mem'[c]
               /\ mem'[c].id \in DOMAIN db'.employees /\ db'.employees[mem'[c].id] # Nothing
    PROVE  Hand(c)'
<1>1. OwnRequest(c)'
    BY DEF OwnRequest, Asking, SavingLabels, HiringLabels
<1>2. RowInHand(c)'
    BY DEF RowInHand, UserSaves, BusinessSaves, SavingLabels, HiringLabels, GoodChange, IsEmployee
<1>3. SlipInHand(c)'
    BY DEF SlipInHand, SavingLabels, CalculateLabels
<1> QED
    BY <1>1, <1>2, <1>3 DEF Hand

\* An employee that is found is there.
LEMMA FoundEmployee ==
    ASSUME SlipInv, NEW c, NEW id, NEW business, NEW found,
           found = FindEmployee(c, id, business), found # Nothing
    PROVE  found = id /\ found \in DOMAIN db.employees /\ db.employees[found] # Nothing
BY DEF FindEmployee, First, Where, Sees

LEMMA LoadsEmployee ==
    ASSUME Inv, SlipInv, NEW c \in Calls, req' = req, NEW id, NEW business,
           NEW label \in SavingLabels, NEW missing,
           Loads(c, "employees", FindEmployee(c, id, business), label, missing)
    PROVE  SlipInv'
<1>1. PICK found : found = FindEmployee(c, id, business)
    OBVIOUS
<1>2. CASE found = Nothing
    BY <1>1, <1>2, AnswersPasses, PassesKeeps DEF Loads
<1>3. CASE found # Nothing
    <2>1. /\ Moves(c) /\ db' = db /\ pc'[c] = label
          /\ mem'[c] = [id |-> found, row |-> db.employees[found]]
        BY <1>1, <1>3 DEF Loads, Reads, Goes, Moves, Inv, Rowwise, Shape
    <2>2. Hand(c)'
        BY <1>1, <1>3, <2>1, FoundEmployee, EmployeeRowIsGood, SavingHand
    <2> QED
        BY <2>1, <2>2, SameIsTidy, TidyKeeps
<1> QED
    BY <1>2, <1>3

\* GORM's Updates of an employee with a change that is good.
LEMMA UpdateEmployeeIsTidy ==
    ASSUME SlipInv, NEW id \in DOMAIN db.employees, db.employees[id] # Nothing, NEW new,
           GoodChange(new), db' = UpdateEmployee(id, new)
    PROVE  Tidy
<1>1. PICK old, row : old = db.employees[id] /\ row = Updates(old, new)
    OBVIOUS
<1>2. db' = Put("employees", id, row)
    BY <1>1 DEF UpdateEmployee
<1>3. GoodEmployee(old)
    BY <1>1, EmployeeRowIsGood
<1>4. /\ DOMAIN row = DOMAIN old /\ row.on = old.on \cup new.on
      /\ row.rent = IF new.rent = Nothing THEN old.rent ELSE new.rent
    BY <1>1, <1>3 DEF Updates, GoodEmployee, IsEmployee
<1>5. GoodEmployee(row)
    BY <1>3, <1>4 DEF GoodEmployee, GoodChange, IsEmployee
<1> QED
    BY <1>2, <1>5, PutIsTidy DEF GoodRow

LEMMA SavesEmployeePasses ==
    ASSUME Inv, SlipInv, NEW c \in Calls, req' = req, pc[c] \in SavingLabels, NEW new,
           GoodChange(new), NEW refused, SavesEmployee(c, new, refused)
    PROVE  Passes(c)
<1>1. mem[c].id \in DOMAIN db.employees /\ db.employees[mem[c].id] # Nothing
    BY DEF SlipInv, Hand, RowInHand
<1>2. CASE Answers(c, refused)
    BY <1>2, AnswersPasses
<1>3. CASE WritesAndAnswers(c, UpdateEmployee(mem[c].id, new), "ok")
    BY <1>1, <1>3, UpdateEmployeeIsTidy, WritesAndAnswersPasses
<1> QED
    BY <1>2, <1>3 DEF SavesEmployee

\* The login of an employee.
LEMMA LogInKeepsSlips ==
    ASSUME Inv, SlipInv, NEW c \in Calls, req' = req, LogIn(c)
    PROVE  SlipInv'
<1>1. CASE \/ HandleLogin(c) \/ Login(c) \/ HandleEmployeeLogin(c) \/ EmployeeLogin(c)
           \/ HandleCreateLogin(c)
    BY <1>1, AccountsPass, PassesKeeps DEF AccountsPassing
<1>2. CASE CreateLoginFindsEmployee(c)
    BY <1>2, LoadsEmployee DEF CreateLoginFindsEmployee, SavingLabels
<1>3. CASE CreateLoginCreatesUser(c)
    <2>1. PICK user : user = EmployeeUser(c)
        OBVIOUS
    <2>2. "on" \in DOMAIN user /\ user.on = {"verified"}
        BY <2>1 DEF EmployeeUser
    <2>3. InsertUser(c, "create_login.user", user, "create_login.link")
        BY <1>3, <2>1 DEF CreateLoginCreatesUser
    <2>4. CASE Passes(c)
        BY <2>4, PassesKeeps
    <2>5. CASE Moves(c) /\ Tidy /\ pc'[c] = "create_login.link" /\ mem'[c] = mem[c]
        <3>1. /\ GoodChange(mem[c].row) /\ {"id", "row"} \subseteq DOMAIN mem[c]
              /\ mem[c].id \in DOMAIN db.employees /\ db.employees[mem[c].id] # Nothing
            BY <1>3 DEF CreateLoginCreatesUser, At, SlipInv, Hand, RowInHand, SavingLabels
        <3>2. mem[c].id \in DOMAIN db'.employees /\ db'.employees[mem[c].id] # Nothing
            BY <2>5, <3>1, TidyKeepsRows
        <3>3. Hand(c)'
            BY <2>5, <3>1, <3>2, SavingHand DEF SavingLabels
        <3> QED
            BY <2>5, <3>3, TidyKeeps
    <2> QED
        BY <2>2, <2>3, <2>4, <2>5, InsertsUser
<1>4. CASE CreateLoginLinksEmployee(c)
    <2>1. PICK row, new : row = mem[c].row /\ new = [row EXCEPT !.user = c]
        OBVIOUS
    <2>2. pc[c] \in SavingLabels /\ SavesEmployee(c, new, "ok")
        BY <1>4, <2>1 DEF CreateLoginLinksEmployee, At, SavingLabels
    <2>3. GoodChange(row)
        BY <2>1, <2>2 DEF SlipInv, Hand, RowInHand
    <2>4. DOMAIN new = DOMAIN row /\ new.on = row.on /\ new.rent = row.rent
        BY <2>1, <2>3 DEF GoodChange, IsEmployee
    <2>5. GoodChange(new)
        BY <2>3, <2>4 DEF GoodChange, IsEmployee
    <2> QED
        BY <2>2, <2>5, SavesEmployeePasses, PassesKeeps
<1> QED
    BY <1>1, <1>2, <1>3, <1>4 DEF LogIn

\* Invitations, passwords, settings, suspensions and subscriptions.
LEMMA AccountsKeepSlips ==
    ASSUME Inv, SlipInv, NEW c \in Calls, req' = req,
           Invite(c) \/ Recover(c) \/ Manage(c) \/ Bill(c)
    PROVE  SlipInv'
<1>1. CASE AccountsPassing(c)
    BY <1>1, AccountsPass, PassesKeeps
<1>2. CASE InviteCreatesUser(c)
    <2>1. PICK user : user = Invited(c)
        OBVIOUS
    <2>2. "on" \in DOMAIN user /\ user.on = {}
        BY <2>1 DEF Invited
    <2>3. InsertUser(c, "invite.create", user, "invite.sent")
        BY <1>2, <2>1 DEF InviteCreatesUser
    <2>4. Passes(c)
        BY <2>2, <2>3, InsertsUser DEF Passes, HandLabels, UserSaves, BusinessSaves, HiringLabels,
            SavingLabels, AskingLabels, CalculateLabels
    <2> QED
        BY <2>4, PassesKeeps
<1> QED
    BY <1>1, <1>2, RereadsKeepSlips, SavesPass, AsksForSettings, PassesKeeps
        DEF Invite, Recover, Manage, Bill, AccountsPassing, Rereads, WritesBack

\* UpdateEmployee, the bank details of the caller, and DeactivateEmployee.
LEMMA EmployKeepsSlips ==
    ASSUME Inv, SlipInv, NEW c \in Calls, req' = req, Employ(c)
    PROVE  SlipInv'
<1>0. DOMAIN pc = Calls /\ DOMAIN mem = Calls /\ DOMAIN answer = Calls /\ req \in Workloads
    BY DEF Inv, Rowwise, Shape
<1>1. ASSUME NEW result, Answers(c, result)
      PROVE  SlipInv'
    BY <1>1, AnswersPasses, PassesKeeps
<1>2. CASE HandleUpdateEmployee(c)
    <2>1. CASE Answers(c, "forbidden")
        BY <1>1, <2>1
    <2>2. CASE Reads(c, [id |-> req[c].id, row |-> req[c].row, moved |-> FALSE], "update")
        <3>1. /\ Moves(c) /\ db' = db /\ pc'[c] = "update" /\ mem'[c].row = req[c].row
            BY <1>0, <2>2 DEF Reads, Goes, Moves
        <3>2. GoodChange(req[c].row)
            BY <1>0, <1>2, PayAssumption, SlipAssumption DEF HandleUpdateEmployee, GoodChange
        <3>3. Hand(c)'
            BY <3>1, <3>2, SavingHand DEF SavingLabels
        <3> QED
            BY <3>1, <3>3, SameIsTidy, TidyKeeps
    <2> QED
        BY <1>2, <2>1, <2>2 DEF HandleUpdateEmployee
<1>3. CASE HandleUpdateBankDetails(c)
    <2>1. CASE \E result : Answers(c, result)
        BY <1>1, <2>1
    <2>2. CASE ~\E result : Answers(c, result)
        <3>1. PICK id : /\ id = First({e \in FindEmployees(c, Business(c)) :
                                          db.employees[e].user = req[c].as.user})
                        /\ id # Nothing
                        /\ Reads(c, [id |-> id, moved |-> FALSE,
                                     row |-> [db.employees[id] EXCEPT !.bank = req[c].bank]],
                                 "update")
            BY <1>3, <2>2 DEF HandleUpdateBankDetails
        <3>2. id \in FindEmployees(c, Business(c))
            BY <3>1 DEF First
        <3>3. id \in DOMAIN db.employees /\ db.employees[id] # Nothing
            BY <3>2 DEF FindEmployees, Where, Sees
        <3>4. PICK old, row : old = db.employees[id] /\ row = [old EXCEPT !.bank = req[c].bank]
            OBVIOUS
        <3>5. GoodChange(old)
            BY <3>3, <3>4, EmployeeRowIsGood
        <3>6. DOMAIN row = DOMAIN old /\ row.on = old.on /\ row.rent = old.rent
            BY <3>4, <3>5 DEF GoodChange, IsEmployee
        <3>7. Moves(c) /\ db' = db /\ pc'[c] = "update" /\ mem'[c].row = row
            BY <1>0, <3>1, <3>4 DEF Reads, Goes, Moves
        <3>8. GoodChange(row)
            BY <3>5, <3>6 DEF GoodChange, IsEmployee
        <3>9. Hand(c)'
            BY <3>7, <3>8, SavingHand DEF SavingLabels
        <3> QED
            BY <3>7, <3>9, SameIsTidy, TidyKeeps
    <2> QED
        BY <2>1, <2>2
<1>4. CASE UpdateFindsEmployee(c)
    <2>1. CASE \E result : Answers(c, result)
        BY <1>1, <2>1
    <2>2. CASE ~\E result : Answers(c, result)
        <3>1. PICK id, row, moved, new, label :
                  /\ id = FindEmployee(c, mem[c].id, Business(c)) /\ row = mem[c].row
                  /\ id # Nothing
                  /\ new = (IF moved THEN [row EXCEPT !.on = @ \ {"checked"}] ELSE row)
                  /\ Reads(c, [id |-> id, moved |-> moved, row |-> new], label)
                  /\ label \in {"update.cadre", "update.verify"}
            BY <1>4, <2>2 DEF UpdateFindsEmployee
        <3>2. id \in DOMAIN db.employees /\ db.employees[id] # Nothing
            BY <3>1, FoundEmployee
        <3>3. GoodChange(row)
            BY <1>4, <3>1 DEF UpdateFindsEmployee, At, SlipInv, Hand, RowInHand
        <3>4. DOMAIN new = DOMAIN row /\ new.on \subseteq row.on /\ new.rent = row.rent
            BY <3>1, <3>3 DEF GoodChange, IsEmployee
        <3>5. /\ Moves(c) /\ db' = db /\ pc'[c] = label
              /\ mem'[c] = [id |-> id, moved |-> moved, row |-> new]
            BY <1>0, <3>1 DEF Reads, Goes, Moves
        <3>6. GoodChange(new)
            BY <3>3, <3>4 DEF GoodChange, IsEmployee
        <3>7. Hand(c)'
            <4>1. /\ pc'[c] \in SavingLabels /\ mem'[c].row = new /\ mem'[c].id = id
                  /\ {"id", "row"} \subseteq DOMAIN mem'[c]
                BY <3>1, <3>5 DEF SavingLabels
            <4> QED
                BY <3>2, <3>5, <3>6, <4>1, SavingHand
        <3> QED
            BY <3>5, <3>7, SameIsTidy, TidyKeeps
    <2> QED
        BY <2>1, <2>2
<1>5. ASSUME pc[c] \in SavingLabels
      PROVE  /\ GoodChange(mem[c].row) /\ {"id", "row"} \subseteq DOMAIN mem[c]
             /\ mem[c].id \in DOMAIN db.employees /\ db.employees[mem[c].id] # Nothing
    BY <1>5 DEF SlipInv, Hand, RowInHand
<1>6. CASE UpdateFindsCadre(c)
    <2>1. CASE Answers(c, "invalid")
        BY <1>1, <2>1
    <2>2. CASE Skips(c, "update.verify")
        <3>1. Moves(c) /\ db' = db /\ pc'[c] = "update.verify" /\ mem' = mem
            BY <1>0, <2>2 DEF Skips, Writes, Goes, Moves
        <3>2. Hand(c)'
            BY <1>5, <1>6, <3>1, SavingHand DEF UpdateFindsCadre, At, SavingLabels
        <3> QED
            BY <3>1, <3>2, SameIsTidy, TidyKeeps
    <2> QED
        BY <1>6, <2>1, <2>2 DEF UpdateFindsCadre
<1>7. CASE UpdateVerifiesAccount(c)
    <2>1. PICK old, row, new : /\ old = mem[c] /\ row = old.row
                               /\ new = [old EXCEPT !.row.on = @ \cup {"checked"}]
        OBVIOUS
    <2>2. /\ Moves(c) /\ db' = db /\ pc'[c] = "update.save" /\ mem'[c] \in {old, new}
        BY <1>0, <1>7, <2>1 DEF UpdateVerifiesAccount, Reads, Skips, Writes, Goes, Moves
    <2>3. /\ GoodChange(row) /\ {"id", "row"} \subseteq DOMAIN old
          /\ old.id \in DOMAIN db.employees /\ db.employees[old.id] # Nothing
        BY <1>5, <1>7, <2>1 DEF UpdateVerifiesAccount, At, SavingLabels
    <2>4. /\ DOMAIN new = DOMAIN old /\ new.id = old.id
          /\ new.row = [row EXCEPT !.on = @ \cup {"checked"}]
        BY <2>1, <2>3
    <2>5. /\ DOMAIN new.row = DOMAIN row /\ new.row.on = row.on \cup {"checked"}
          /\ new.row.rent = row.rent
        BY <2>3, <2>4 DEF GoodChange, IsEmployee
    <2>6. GoodChange(new.row)
        BY <2>3, <2>5 DEF GoodChange, IsEmployee
    <2>7. Hand(c)'
        BY <2>1, <2>2, <2>3, <2>4, <2>6, SavingHand DEF SavingLabels
    <2> QED
        BY <2>2, <2>7, SameIsTidy, TidyKeeps
<1>8. CASE UpdateSaves(c)
    BY <1>5, <1>8, SavesEmployeePasses, PassesKeeps DEF UpdateSaves, At, SavingLabels
<1>9. CASE HandleDeactivate(c)
    <2>1. Moves(c) /\ db' = db /\ pc'[c] \in {"done", "deactivate"}
        BY <1>0, <1>9 DEF HandleDeactivate, Handle, Answers, Ends, Skips, Writes, Goes, Moves
    <2> QED
        BY <2>1, SameIsTidy, PassesKeeps DEF Passes, HandLabels, UserSaves, BusinessSaves,
            HiringLabels, SavingLabels, AskingLabels, CalculateLabels
<1>10. CASE DeactivateFindsEmployee(c)
    BY <1>10, LoadsEmployee DEF DeactivateFindsEmployee, SavingLabels
<1>11. CASE DeactivateSaves(c)
    <2>1. PICK row, new : row = mem[c].row /\ new = [row EXCEPT !.on = @ \ {"active"}]
        OBVIOUS
    <2>2. pc[c] \in SavingLabels /\ SavesEmployee(c, new, "error")
        BY <1>11, <2>1 DEF DeactivateSaves, At, SavingLabels
    <2>3. GoodChange(row)
        BY <1>5, <2>1, <2>2
    <2>4. DOMAIN new = DOMAIN row /\ new.on = row.on \ {"active"} /\ new.rent = row.rent
        BY <2>1, <2>3 DEF GoodChange, IsEmployee
    <2>5. GoodChange(new)
        BY <2>3, <2>4 DEF GoodChange, IsEmployee
    <2> QED
        BY <2>2, <2>5, SavesEmployeePasses, PassesKeeps
<1> QED
    BY <1>2, <1>3, <1>4, <1>6, <1>7, <1>8, <1>9, <1>10, <1>11 DEF Employ

\* The rows of an import.
LEMMA HiringHand ==
    ASSUME SlipInv, NEW c \in Calls, req' = req, pc'[c] \in HiringLabels,
           req[c].op \in {"hire", "import"}, {"on", "row"} \subseteq DOMAIN mem'[c],
           mem'[c].row \in DOMAIN req[c].rows, mem'[c].on \subseteq {"active", "checked"}
    PROVE  Hand(c)'
<1>1. OwnRequest(c)'
    BY DEF OwnRequest, Asking, HiringLabels
<1>2. RowInHand(c)'
    BY DEF RowInHand, UserSaves, BusinessSaves, SavingLabels, HiringLabels
<1>3. SlipInHand(c)'
    BY DEF SlipInHand, HiringLabels, CalculateLabels
<1> QED
    BY <1>1, <1>2, <1>3 DEF Hand

\* The rows of a hiring or an import, each with a rent.
LEMMA RowsAreList ==
    ASSUME Inv, NEW c \in Calls, req[c].op \in {"hire", "import"}
    PROVE  /\ Len(req[c].rows) \in Nat /\ DOMAIN req[c].rows = 1 .. Len(req[c].rows)
           /\ \A i \in DOMAIN req[c].rows : req[c].rows[i].rent \in Int
           /\ req[c].rows # <<>> => 1 \in DOMAIN req[c].rows
<1>1. PICK rows : rows = req[c].rows
    OBVIOUS
<1>2. rows \in Seq(Range(rows)) /\ \A row \in Range(rows) : row.rent \in Int
    BY <1>1, SlipAssumption DEF Inv, Rowwise, Shape
<1>3. Len(rows) \in Nat /\ DOMAIN rows = 1 .. Len(rows)
    BY <1>2, LenProperties
<1>4. \A i \in DOMAIN rows : rows[i].rent \in Int
    BY <1>2 DEF Range
<1>5. rows # <<>> => 1 \in DOMAIN rows
    BY <1>2, <1>3, EmptySeq
<1> QED
    BY <1>1, <1>3, <1>4, <1>5

\* The end of a row of an import, which goes on with the next.
LEMMA RowEndsWell ==
    ASSUME Inv, SlipInv, NEW c \in Calls, req' = req, pc[c] \in HiringLabels, NEW result,
           RowEnds(c, result), Tidy
    PROVE  SlipInv'
<1>0. DOMAIN pc = Calls /\ DOMAIN mem = Calls /\ DOMAIN answer = Calls
    BY DEF Inv, Rowwise, Shape
<1>1. CASE Importing(c) /\ mem[c].row < Len(req[c].rows)
    <2>1. /\ Moves(c) /\ pc'[c] = "hire"
          /\ mem'[c] = [row |-> mem[c].row + 1, on |-> {"active"},
                        created |-> mem[c].created + (IF result = "ok" THEN 1 ELSE 0)]
        BY <1>0, <1>1 DEF RowEnds, Goes, Moves
    <2>2. req[c].op \in {"hire", "import"} /\ mem[c].row \in DOMAIN req[c].rows
        BY DEF SlipInv, Hand, OwnRequest, RowInHand
    <2>3. mem[c].row + 1 \in DOMAIN req[c].rows
        BY <1>1, <2>2, RowsAreList
    <2>4. Hand(c)'
        BY <2>1, <2>2, <2>3, HiringHand DEF HiringLabels
    <2> QED
        BY <2>1, <2>4, TidyKeeps
<1>2. CASE ~(Importing(c) /\ mem[c].row < Len(req[c].rows))
    <2>1. Moves(c) /\ pc'[c] = "done"
        BY <1>0, <1>2 DEF RowEnds, Ends, Goes, Moves
    <2> QED
        BY <2>1, PassesKeeps DEF Passes, HandLabels, UserSaves, BusinessSaves, HiringLabels,
            SavingLabels, AskingLabels, CalculateLabels
<1> QED
    BY <1>1, <1>2

\* CreateEmployee, for one row or for each of a file.
LEMMA HireKeepsSlips ==
    ASSUME Inv, SlipInv, NEW c \in Calls, req' = req, Hire(c)
    PROVE  SlipInv'
<1>0. DOMAIN pc = Calls /\ DOMAIN mem = Calls /\ DOMAIN answer = Calls /\ req \in Workloads
    BY DEF Inv, Rowwise, Shape
<1>1. ASSUME NEW result, Answers(c, result)
      PROVE  SlipInv'
    BY <1>1, AnswersPasses, PassesKeeps
<1>2. ASSUME pc[c] \in HiringLabels
      PROVE  /\ req[c].op \in {"hire", "import"} /\ {"on", "row"} \subseteq DOMAIN mem[c]
             /\ mem[c].row \in DOMAIN req[c].rows /\ mem[c].on \subseteq {"active", "checked"}
    BY <1>2 DEF SlipInv, Hand, OwnRequest, RowInHand
<1>3. ASSUME pc[c] \in HiringLabels, NEW label \in HiringLabels, Skips(c, label)
      PROVE  SlipInv'
    <2>1. Moves(c) /\ db' = db /\ pc'[c] = label /\ mem' = mem
        BY <1>0, <1>3 DEF Skips, Writes, Goes, Moves
    <2>2. Hand(c)'
        BY <1>2, <1>3, <2>1, HiringHand
    <2> QED
        BY <2>1, <2>2, SameIsTidy, TidyKeeps
<1>4. CASE HandleCreateEmployee(c) \/ HandleImport(c)
    <2>1. CASE \E result : Answers(c, result)
        BY <1>1, <2>1
    <2>2. CASE Reads(c, [row |-> 1, created |-> 0, on |-> {"active"}], "hire")
        <3>1. /\ Moves(c) /\ db' = db /\ pc'[c] = "hire"
              /\ mem'[c] = [row |-> 1, created |-> 0, on |-> {"active"}]
            BY <1>0, <2>2 DEF Reads, Goes, Moves
        <3>2. pc[c] = "received" /\ pc'[c] # "done"
            BY <1>4, <3>1 DEF HandleCreateEmployee, HandleImport, At
        <3>7. ASSUME NEW result, Answers(c, result)
              PROVE  FALSE
            BY <1>0, <3>1, <3>7 DEF Answers, Ends, Goes
        <3>3. req[c].op = "hire" \/ (req[c].op = "import" /\ req[c].rows # <<>>)
            BY <1>4, <3>7 DEF HandleCreateEmployee, HandleImport, Importing
        <3>4. req[c].rows # <<>>
            BY <1>0, <3>3, SlipAssumption
        <3>5. Hand(c)'
            BY <3>1, <3>3, <3>4, RowsAreList, HiringHand DEF HiringLabels
        <3> QED
            BY <3>1, <3>5, SameIsTidy, TidyKeeps
    <2> QED
        BY <1>4, <2>1, <2>2 DEF HandleCreateEmployee, HandleImport
<1>5. CASE HireFindsCadre(c) \/ HireChecksEmail(c) \/ (HireInserts(c) /\ db' = db)
    <2>1. pc[c] \in HiringLabels
        BY <1>5 DEF HireFindsCadre, HireChecksEmail, HireInserts, At, HiringLabels
    <2>2. CASE \E result : RowEnds(c, result) /\ db' = db
        BY <2>1, <2>2, RowEndsWell, SameIsTidy
    <2>3. CASE Skips(c, "hire.email") \/ Skips(c, "hire.verify")
        BY <1>3, <2>1, <2>3 DEF HiringLabels
    <2> QED
        BY <1>5, <2>2, <2>3 DEF HireFindsCadre, HireChecksEmail, HireInserts, InsertEmployee
<1>6. CASE HireVerifiesAccount(c)
    <2>1. pc[c] \in HiringLabels
        BY <1>6 DEF HireVerifiesAccount, At, HiringLabels
    <2>2. CASE Skips(c, "hire.insert")
        BY <1>3, <2>1, <2>2 DEF HiringLabels
    <2>3. CASE ~Skips(c, "hire.insert")
        <3>1. PICK old, new : old = mem[c] /\ new = [old EXCEPT !.on = @ \cup {"checked"}]
            OBVIOUS
        <3>2. /\ Moves(c) /\ db' = db /\ pc'[c] = "hire.insert" /\ mem'[c] = new
            BY <1>0, <1>6, <2>3, <3>1 DEF HireVerifiesAccount, Reads, Goes, Moves
        <3>3. DOMAIN new = DOMAIN old /\ new.row = old.row /\ new.on = old.on \cup {"checked"}
            BY <1>2, <2>1, <3>1
        <3>4. Hand(c)'
            BY <1>2, <2>1, <3>1, <3>2, <3>3, HiringHand DEF HiringLabels
        <3> QED
            BY <3>2, <3>4, SameIsTidy, TidyKeeps
    <2> QED
        BY <2>2, <2>3
<1>7. CASE HireInserts(c) /\ db' # db
    <2>1. PICK row : row = NewEmployee(c)
        OBVIOUS
    <2>2. /\ pc[c] \in HiringLabels /\ RowEnds(c, "ok")
          /\ db' = Put("employees", <<c, mem[c].row>>, row)
        BY <1>7, <2>1 DEF HireInserts, InsertEmployee, At, HiringLabels
    <2>3. Row(c).rent \in Int
        BY <1>2, <2>2, RowsAreList DEF Row
    <2>4. GoodEmployee(row)
        BY <1>2, <2>1, <2>2, <2>3 DEF NewEmployee, GoodEmployee, IsEmployee
    <2>5. Tidy
        BY <2>2, <2>4, PutIsTidy DEF GoodRow
    <2> QED
        BY <2>2, <2>5, RowEndsWell
<1> QED
    BY <1>4, <1>5, <1>6, <1>7 DEF Hire

-----------------------------------------------------------------------------
(* Cadres, rules and loans *)

\* A request that is about to be served.
LEMMA AskingHand ==
    ASSUME NEW c \in Calls, req' = req, NEW label, pc'[c] = label,
           label \in AskingLabels \ {"settings.save", "lend"}, <<label, req[c].op>> \in Asking
    PROVE  Hand(c)'
<1>1. OwnRequest(c)'
    BY DEF OwnRequest, Asking, AskingLabels, HiringLabels
<1>2. RowInHand(c)'
    BY DEF RowInHand, UserSaves, BusinessSaves, SavingLabels, HiringLabels, AskingLabels
<1>3. SlipInHand(c)'
    BY DEF SlipInHand, AskingLabels, CalculateLabels
<1> QED
    BY <1>1, <1>2, <1>3 DEF Hand

\* The amounts in a list of a request or of the start.
LEMMA PayListAmounts ==
    ASSUME NEW list, IsPayList(list), NaturalAmounts => AreNatural(list)
    PROVE  AmountsIn(list, Amount) /\ AmountsIn(list, Int) /\ list \in Seq(Range(list))
<1>1. list \in Seq(Range(list)) /\ \A i \in DOMAIN list : list[i].amount \in Int
    BY DEF IsPayList
<1>2. IsList(list)
    BY <1>1, LenProperties DEF IsList
<1> QED
    BY <1>1, <1>2 DEF AmountsIn, AreNatural, Amount

LEMMA NamedCadreIsGood ==
    ASSUME Inv, NEW c \in Calls, req[c].op \in {"create_cadre", "update_cadre"}
    PROVE  GoodCadre(NamedCadre(c))
<1>1. PICK cadre, list : cadre = NamedCadre(c) /\ list = req[c].components
    OBVIOUS
<1>2. /\ IsPayList(list) /\ \A i \in DOMAIN list : IsComponent(list[i])
      /\ NaturalAmounts => AreNatural(list)
    BY <1>1, SlipAssumption DEF NaturalAmounts, Inv, Rowwise, Shape
<1>3. cadre.components = list /\ DOMAIN cadre = {"business", "name", "components", "deleted"}
    BY <1>1 DEF NamedCadre
<1> QED
    BY <1>1, <1>2, <1>3, PayListAmounts DEF GoodCadre, IsCadre

\* Two lists of components, one after the other.
LEMMA ComponentsJoin ==
    ASSUME NEW a, NEW b, NEW S, a \in Seq(Range(a)), b \in Seq(Range(b)), AmountsIn(a, S), AmountsIn(b, S),
           \A i \in DOMAIN a : IsComponent(a[i]), \A i \in DOMAIN b : IsComponent(b[i])
    PROVE  /\ a \o b \in Seq(Range(a \o b)) /\ AmountsIn(a \o b, S)
           /\ \A i \in DOMAIN (a \o b) : IsComponent((a \o b)[i])
<1>1. PICK R, ab : R = Range(a) \cup Range(b) /\ ab = a \o b
    OBVIOUS
<1>2. a \in Seq(R) /\ b \in Seq(R)
    BY <1>1 DEF Range
<1>3. PICK m, n : m = Len(a) /\ n = Len(b)
    OBVIOUS
<1>4. /\ ab \in Seq(R) /\ m \in Nat /\ n \in Nat /\ DOMAIN a = 1 .. m /\ DOMAIN b = 1 .. n
      /\ DOMAIN ab = 1 .. m + n
      /\ \A i \in 1 .. m : ab[i] = a[i]
      /\ \A i \in 1 .. n : ab[m + i] = b[i]
      /\ \A i \in DOMAIN ab : i \notin DOMAIN a => i - m \in DOMAIN b
    BY <1>1, <1>2, <1>3, ListJoins
<1>5. ASSUME NEW i \in DOMAIN ab
      PROVE  (\E j \in DOMAIN a : ab[i] = a[j]) \/ (\E j \in DOMAIN b : ab[i] = b[j])
    <2>1. CASE i \in DOMAIN a
        BY <1>4, <2>1
    <2>2. CASE i \notin DOMAIN a
        <3>1. i - m \in 1 .. n /\ i \in 1 .. m + n
            BY <1>4, <2>2
        <3>2. m + (i - m) = i
            BY <1>4, <3>1
        <3>3. ab[m + (i - m)] = b[i - m]
            BY <1>4, <3>1
        <3> QED
            BY <1>4, <3>1, <3>2, <3>3
    <2> QED
        BY <2>1, <2>2
<1>6. \A i \in DOMAIN ab : ab[i].amount \in S /\ IsComponent(ab[i])
    BY <1>5 DEF AmountsIn
<1>7. m + n \in Nat
    BY <1>4
<1>8. IsList(ab)
    BY <1>4, <1>7 DEF IsList
<1>9. ab \in Seq(Range(ab))
    <2>1. ab \in [1 .. m + n -> Range(ab)]
        <3>1. ab \in [1 .. Len(ab) -> R] /\ DOMAIN ab = 1 .. Len(ab)
            BY <1>4, LenProperties
        <3> QED
            BY <1>4, <3>1 DEF Range
    <2> QED
        BY <1>7, <2>1, ListMade
<1> QED
    BY <1>1, <1>6, <1>8, <1>9 DEF AmountsIn

\* Save of a cadre adds the components that it finds to those that the cadre has.
LEMMA SaveCadreIsTidy ==
    ASSUME SlipInv, NEW cadre, GoodCadre(cadre), NEW id, db' = SaveCadre(id, cadre)
    PROVE  Tidy
<1>1. PICK before, both, saved :
          /\ before = (IF db.cadres[id] = Nothing THEN <<>> ELSE db.cadres[id].components)
          /\ both = before \o cadre.components
          /\ saved = [cadre EXCEPT !.components = both]
    OBVIOUS
<1>2. db' = Put("cadres", id, saved)
    BY <1>1 DEF SaveCadre, GoodCadre, IsCadre
<1>3. ASSUME id \in DOMAIN db.cadres
      PROVE  /\ before \in Seq(Range(before)) /\ AmountsIn(before, Amount)
             /\ \A i \in DOMAIN before : IsComponent(before[i])
    <2>1. CASE db.cadres[id] = Nothing
        <3>1. before = <<>> /\ DOMAIN before = 1 .. 0
            BY <1>1, <2>1
        <3>2. before \in Seq(Range(before))
            BY <3>1
        <3> QED
            BY <3>1, <3>2 DEF AmountsIn, IsList
    <2>2. CASE db.cadres[id] # Nothing
        <3>1. GoodRow("cadres", db.cadres[id])
            BY <1>3, <2>2 DEF SlipInv, SlipRows, SlipTables
        <3> QED
            BY <1>1, <2>2, <3>1 DEF GoodRow, GoodCadre, IsCadre
    <2> QED
        BY <2>1, <2>2
<1>4. DOMAIN saved = DOMAIN cadre /\ saved.components = both
    BY <1>1 DEF GoodCadre, IsCadre
<1>5. id \in DOMAIN db.cadres => GoodCadre(saved)
    BY <1>1, <1>3, <1>4, ComponentsJoin DEF GoodCadre, IsCadre
<1> QED
    BY <1>2, <1>5, PutIsTidy DEF GoodRow

LEMMA SavesNamedPasses ==
    ASSUME Inv, SlipInv, NEW c \in Calls, req' = req, NEW table, NEW id, NEW row, NEW tables,
           SavesNamed(c, table, id, row, tables), db' = tables => Tidy
    PROVE  Passes(c)
<1>1. CASE Answers(c, "error")
    BY <1>1, AnswersPasses
<1>2. CASE WritesAndAnswers(c, tables, "ok")
    BY <1>2, WritesAndAnswersPasses
<1> QED
    BY <1>1, <1>2 DEF SavesNamed

\* What a call deletes is there.
LEMMA FoundToDelete ==
    ASSUME NEW c, NEW id, NEW business
    PROVE  /\ FindCadre(c, id, business) # Nothing =>
                  id \in DOMAIN db.cadres /\ db.cadres[id] # Nothing
           /\ FindRule(c, id, business) # Nothing =>
                  id \in DOMAIN db.rules /\ db.rules[id] # Nothing
BY DEF FindCadre, FindRule, First, Where, Sees

\* The operations on cadres and on deduction rules.
LEMMA StructureKeepsSlips ==
    ASSUME Inv, SlipInv, NEW c \in Calls, req' = req, Structure(c)
    PROVE  SlipInv'
<1>0. DOMAIN pc = Calls /\ DOMAIN mem = Calls /\ DOMAIN answer = Calls /\ req \in Workloads
    BY DEF Inv, Rowwise, Shape
<1>1. ASSUME NEW result, Answers(c, result)
      PROVE  SlipInv'
    BY <1>1, AnswersPasses, PassesKeeps
<1>2. ASSUME NEW label, Skips(c, label),
             \/ label \notin HandLabels
             \/ /\ label \in AskingLabels \ {"settings.save", "lend"}
                /\ <<label, req[c].op>> \in Asking
      PROVE  SlipInv'
    <2>1. Moves(c) /\ db' = db /\ pc'[c] = label /\ mem' = mem
        BY <1>0, <1>2 DEF Skips, Writes, Goes, Moves
    <2>2. Hand(c)'
        BY <1>2, <2>1, AskingHand, HandsFree
    <2> QED
        BY <2>1, <2>2, SameIsTidy, TidyKeeps
<1>3. \A asking \in Asking : pc[c] = asking[1] => req[c].op = asking[2]
    BY DEF SlipInv, Hand, OwnRequest
<1>4. CASE \/ HandleCreateCadre(c) \/ HandleUpdateCadre(c) \/ HandleDeleteCadre(c)
           \/ HandleCreateRule(c) \/ HandleUpdateRule(c) \/ HandleDeleteRule(c)
    <2>1. /\ \/ \E result : Answers(c, result)
             \/ Skips(c, req[c].op)
          /\ req[c].op \in {"create_cadre", "update_cadre", "delete_cadre", "create_rule",
                            "update_rule", "delete_rule"}
        BY <1>4 DEF HandleCreateCadre, HandleUpdateCadre, HandleDeleteCadre, HandleCreateRule,
            HandleUpdateRule, HandleDeleteRule, Handle
    <2>2. \/ req[c].op \notin HandLabels
          \/ /\ req[c].op \in AskingLabels \ {"settings.save", "lend"}
             /\ <<req[c].op, req[c].op>> \in Asking
        BY <2>1 DEF HandLabels, UserSaves, BusinessSaves, HiringLabels, SavingLabels,
            AskingLabels, CalculateLabels, Asking
    <2> QED
        BY <1>1, <1>2, <2>1, <2>2
<1>5. CASE CreateCadreChecks(c)
    <2>1. CASE \E result : Answers(c, result)
        BY <1>1, <2>1
    <2>2. CASE Skips(c, "create_cadre.insert")
        <3>1. req[c].op = "create_cadre"
            BY <1>3, <1>5 DEF CreateCadreChecks, At, Asking
        <3> QED
            BY <1>2, <2>2, <3>1 DEF AskingLabels, Asking
    <2> QED
        BY <1>5, <2>1, <2>2 DEF CreateCadreChecks
<1>6. CASE CreateCadreInserts(c)
    <2>1. PICK cadre : cadre = NamedCadre(c)
        OBVIOUS
    <2>2. req[c].op = "create_cadre"
        BY <1>3, <1>6 DEF CreateCadreInserts, At, Asking
    <2>3. GoodRow("cadres", cadre)
        BY <2>1, <2>2, NamedCadreIsGood DEF GoodRow
    <2>4. SavesNamed(c, "cadres", c, cadre, Put("cadres", c, cadre))
        BY <1>6, <2>1 DEF CreateCadreInserts
    <2>5. db' = Put("cadres", c, cadre) => Tidy
        BY <2>3, PutIsTidy
    <2> QED
        BY <2>4, <2>5, SavesNamedPasses, PassesKeeps
<1>7. CASE UpdateCadre(c)
    <2>1. PICK cadre : cadre = NamedCadre(c)
        OBVIOUS
    <2>2. req[c].op = "update_cadre"
        BY <1>3, <1>7 DEF UpdateCadre, At, Asking
    <2>3. GoodCadre(cadre)
        BY <2>1, <2>2, NamedCadreIsGood
    <2>4. SavesNamed(c, "cadres", req[c].id, cadre, SaveCadre(req[c].id, cadre))
        BY <1>7, <2>1 DEF UpdateCadre
    <2>5. db' = SaveCadre(req[c].id, cadre) => Tidy
        BY <2>3, SaveCadreIsTidy
    <2> QED
        BY <2>4, <2>5, SavesNamedPasses, PassesKeeps
<1>8. CASE DeleteCadre(c)
    <2>1. CASE Answers(c, "missing")
        BY <1>1, <2>1
    <2>2. CASE /\ FindCadre(c, req[c].id, Business(c)) # Nothing
               /\ WritesAndAnswers(c, Delete("cadres", req[c].id), "ok")
        <3>1. req[c].id \in DOMAIN db.cadres /\ db.cadres[req[c].id] # Nothing
            BY <2>2, FoundToDelete
        <3>2. db' = Delete("cadres", req[c].id) => Tidy
            BY <3>1, DeleteIsTidy
        <3> QED
            BY <2>2, <3>2, WritesAndAnswersPasses, PassesKeeps
    <2> QED
        BY <1>8, <2>1, <2>2 DEF DeleteCadre
<1>9. CASE CreateDeductionRule(c) \/ UpdateDeductionRule(c)
    <2>1. PICK rule : rule = NamedRule(c)
        OBVIOUS
    <2>2. req[c].op \in {"create_rule", "update_rule"}
        BY <1>3, <1>9 DEF CreateDeductionRule, UpdateDeductionRule, At, Asking
    <2>3. NaturalAmounts => req[c].value \in Nat
        BY <1>0, <2>2 DEF NaturalAmounts
    <2>4. GoodRow("rules", rule)
        BY <2>1, <2>3 DEF NamedRule, GoodRow, GoodRule, IsRule
    <2>5. \E id : SavesNamed(c, "rules", id, rule, Put("rules", id, rule))
        BY <1>9, <2>1 DEF CreateDeductionRule, UpdateDeductionRule
    <2>6. \A id : db' = Put("rules", id, rule) => Tidy
        BY <2>4, PutIsTidy
    <2> QED
        BY <2>5, <2>6, SavesNamedPasses, PassesKeeps
<1>10. CASE DeleteDeductionRule(c)
    <2>1. CASE Answers(c, "missing")
        BY <1>1, <2>1
    <2>2. CASE /\ FindRule(c, req[c].id, Business(c)) # Nothing
               /\ WritesAndAnswers(c, Delete("rules", req[c].id), "ok")
        <3>1. req[c].id \in DOMAIN db.rules /\ db.rules[req[c].id] # Nothing
            BY <2>2, FoundToDelete
        <3>2. db' = Delete("rules", req[c].id) => Tidy
            BY <3>1, DeleteIsTidy
        <3> QED
            BY <2>2, <3>2, WritesAndAnswersPasses, PassesKeeps
    <2> QED
        BY <1>10, <2>1, <2>2 DEF DeleteDeductionRule
<1> QED
    BY <1>4, <1>5, <1>6, <1>7, <1>8, <1>9, <1>10 DEF Structure

-----------------------------------------------------------------------------
(* Loans *)

LEMMA LoanRowIsGood ==
    ASSUME SlipInv, NEW id \in DOMAIN db.loans, db.loans[id] # Nothing
    PROVE  GoodLoan(db.loans[id])
<1>1. GoodRow("loans", db.loans[id])
    BY DEF SlipInv, SlipRows, SlipTables
<1> QED
    BY <1>1 DEF GoodRow

\* CreateLoan and CancelLoan: what is to be repaid and what is owed are not negative.
LEMMA LendKeepsSlips ==
    ASSUME Inv, SlipInv, NEW c \in Calls, req' = req, Lend(c)
    PROVE  SlipInv'
<1>0. DOMAIN pc = Calls /\ DOMAIN mem = Calls /\ DOMAIN answer = Calls /\ req \in Workloads
    BY DEF Inv, Rowwise, Shape
<1>1. ASSUME NEW result, Answers(c, result)
      PROVE  SlipInv'
    BY <1>1, AnswersPasses, PassesKeeps
<1>2. CASE HandleCreateLoan(c)
    <2>1. CASE \E result : Answers(c, result)
        BY <1>1, <2>1
    <2>2. CASE ~\E result : Answers(c, result)
        <3>1. Skips(c, "lend") /\ req[c].op = "lend" /\ req[c].amount >= 1 /\ req[c].monthly >= 1
            BY <1>2, <2>2 DEF HandleCreateLoan, Handle
        <3>2. Moves(c) /\ db' = db /\ pc'[c] = "lend"
            BY <1>0, <3>1 DEF Skips, Writes, Goes, Moves
        <3>3. Hand(c)'
            BY <3>1, <3>2 DEF Hand, OwnRequest, Asking, RowInHand, SlipInHand, UserSaves,
                BusinessSaves, SavingLabels, HiringLabels, CalculateLabels
        <3> QED
            BY <3>2, <3>3, SameIsTidy, TidyKeeps
    <2> QED
        BY <2>1, <2>2
<1>3. CASE CreateLoan(c)
    <2>1. PICK loan : loan = [business |-> Business(c), employee |-> req[c].employee,
                              monthly |-> req[c].monthly, remaining |-> req[c].amount,
                              status |-> "active"]
        OBVIOUS
    <2>2. req[c].op = "lend" /\ req[c].amount >= 1 /\ req[c].monthly >= 1
        BY <1>3 DEF CreateLoan, At, SlipInv, Hand, OwnRequest, Asking
    <2>3. req[c].amount \in Nat /\ req[c].monthly \in Nat
        BY <1>0, <2>2, SlipAssumption
    <2>4. GoodRow("loans", loan)
        BY <2>1, <2>3 DEF GoodRow, GoodLoan
    <2>5. WritesAndAnswers(c, Put("loans", c, loan), "ok")
        BY <1>3, <2>1 DEF CreateLoan
    <2>6. db' = Put("loans", c, loan) => Tidy
        BY <2>4, PutIsTidy
    <2> QED
        BY <2>5, <2>6, WritesAndAnswersPasses, PassesKeeps
<1>4. CASE HandleCancelLoan(c)
    <2>1. CASE \E result : Answers(c, result)
        BY <1>1, <2>1
    <2>2. CASE Skips(c, "cancel_loan")
        <3>1. Moves(c) /\ db' = db /\ pc'[c] = "cancel_loan"
            BY <1>0, <2>2 DEF Skips, Writes, Goes, Moves
        <3>2. Hand(c)'
            BY <1>4, <3>1, AskingHand DEF HandleCancelLoan, Handle, AskingLabels, Asking
        <3> QED
            BY <3>1, <3>2, SameIsTidy, TidyKeeps
    <2> QED
        BY <1>4, <2>1, <2>2 DEF HandleCancelLoan, Handle
<1>5. CASE CancelFindsLoan(c)
    <2>1. CASE \E result : Answers(c, result)
        BY <1>1, <2>1
    <2>2. CASE ~\E result : Answers(c, result)
        <3>1. PICK loan : loan = db.loans[req[c].id]
            OBVIOUS
        <3>2. loan # Nothing /\ Reads(c, [id |-> req[c].id, row |-> loan], "cancel_loan.save")
            BY <1>5, <2>2, <3>1 DEF CancelFindsLoan
        <3>3. Moves(c) /\ db' = db /\ pc'[c] = "cancel_loan.save" /\ mem'[c].row = loan
            BY <1>0, <3>2 DEF Reads, Goes, Moves
        <3>4. req[c].id \in DOMAIN db.loans
            BY <1>0, <1>5, SlipAssumption DEF CancelFindsLoan, At, SlipInv, SlipRows, SlipTables,
                Hand, OwnRequest, Asking
        <3>5. GoodLoan(loan)
            BY <3>1, <3>2, <3>4, LoanRowIsGood
        <3>6. Hand(c)'
            BY <3>3, <3>5 DEF Hand, OwnRequest, Asking, RowInHand, SlipInHand, UserSaves,
                BusinessSaves, SavingLabels, HiringLabels, CalculateLabels, GoodLoan
        <3> QED
            BY <3>3, <3>6, SameIsTidy, TidyKeeps
    <2> QED
        BY <2>1, <2>2
<1>6. CASE CancelSavesLoan(c)
    <2>1. PICK row, new : row = mem[c].row /\ new = [row EXCEPT !.status = "cancelled"]
        OBVIOUS
    <2>2. GoodLoan(row)
        BY <1>6, <2>1 DEF CancelSavesLoan, At, SlipInv, Hand, RowInHand
    <2>3. DOMAIN new = DOMAIN row /\ new.monthly = row.monthly /\ new.remaining = row.remaining
        BY <2>1, <2>2 DEF GoodLoan
    <2>4. GoodRow("loans", new)
        BY <2>2, <2>3 DEF GoodRow, GoodLoan
    <2>5. WritesAndAnswers(c, Put("loans", mem[c].id, new), "ok")
        BY <1>6, <2>1 DEF CancelSavesLoan
    <2>6. db' = Put("loans", mem[c].id, new) => Tidy
        BY <2>4, PutIsTidy
    <2> QED
        BY <2>5, <2>6, WritesAndAnswersPasses, PassesKeeps
<1> QED
    BY <1>2, <1>3, <1>4, <1>5, <1>6 DEF Lend

-----------------------------------------------------------------------------
(* The calculation *)

\* The lists that the database gives.
LEMMA ListOfSet ==
    ASSUME NEW S, IsFiniteSet(S)
    PROVE  LET list == SetToSeq(S)
           IN Cardinality(S) \in Nat /\ DOMAIN list = 1 .. Cardinality(S) /\ \A i \in DOMAIN list : list[i] \in S
<1>1. Cardinality(S) \in Nat /\ ExistsBijection(1 .. Cardinality(S), S)
    BY FS_CardinalityType
<1>2. PICK f : f \in [1 .. Cardinality(S) -> S] /\ IsInjective(f)
    BY <1>1 DEF ExistsBijection, Bijection, Injection, IsInjective
<1>3. SetToSeq(S) \in [1 .. Cardinality(S) -> S]
    BY <1>2 DEF SetToSeq
<1> QED
    BY <1>1, <1>3

\* The rows that a query finds, as a list.
LEMMA ListedRows ==
    ASSUME NEW table, NEW S, IsFiniteSet(S), NEW list, list = Listed(table, S)
    PROVE  IsList(list) /\ \A i \in DOMAIN list : \E id \in S : list[i] = db[table][id]
<1>1. PICK ids, n : ids = SetToSeq(S) /\ n = Cardinality(S)
    OBVIOUS
<1>2. n \in Nat /\ DOMAIN ids = 1 .. n /\ \A i \in DOMAIN ids : ids[i] \in S
    BY <1>1, ListOfSet
<1>3. list = [i \in DOMAIN ids |-> db[table][ids[i]]]
    BY <1>1 DEF Listed
<1> QED
    BY <1>2, <1>3 DEF IsList

\* What a call has in hand during a calculation is only what it has read for it.
LEMMA CalculateHand ==
    ASSUME NEW c \in Calls, pc'[c] \in CalculateLabels, SlipInHand(c)'
    PROVE  Hand(c)'
<1>1. OwnRequest(c)'
    BY DEF OwnRequest, Asking, CalculateLabels, HiringLabels
<1>2. RowInHand(c)'
    BY DEF RowInHand, UserSaves, BusinessSaves, SavingLabels, HiringLabels, CalculateLabels
<1> QED
    BY <1>1, <1>2 DEF Hand

\* A step that reads for the calculation.
LEMMA ReadsOn ==
    ASSUME Inv, SlipInv, NEW c \in Calls, req' = req, NEW value, NEW label \in CalculateLabels,
           Reads(c, value, label),
           mem'[c] = value /\ pc'[c] = label => SlipInHand(c)'
    PROVE  SlipInv'
<1>1. Moves(c) /\ db' = db /\ pc'[c] = label /\ mem'[c] = value
    BY DEF Reads, Goes, Moves, Inv, Rowwise, Shape
<1> QED
    BY <1>1, CalculateHand, SameIsTidy, TidyKeeps

\* The request: nothing is read yet.
LEMMA HandleCalculateKeepsSlips ==
    ASSUME Inv, SlipInv, NEW c \in Calls, req' = req, HandleCalculate(c)
    PROVE  SlipInv'
<1>1. CASE Answers(c, "forbidden")
    BY <1>1, AnswersPasses, PassesKeeps
<1>2. PICK value : value = [adjustments |-> <<>>]
    OBVIOUS
<1>3. CASE Reads(c, value, "calculate.business")
    <2>1. DOMAIN value.adjustments = {}
        BY <1>2
    <2>2. mem'[c] = value /\ pc'[c] = "calculate.business" => SlipInHand(c)'
        BY <2>1 DEF SlipInHand, CalculateLabels
    <2> QED
        BY <1>3, <2>2, ReadsOn DEF CalculateLabels
<1>4. CASE Reads(c, value, "calculate")
    <2>1. Moves(c) /\ db' = db /\ pc'[c] = "calculate" /\ req[c].op = "calculate"
        BY <1>4 DEF HandleCalculate, Reads, Goes, Moves, Inv, Rowwise, Shape
    <2>2. Hand(c)'
        BY <2>1, AskingHand DEF AskingLabels, Asking
    <2> QED
        BY <2>1, <2>2, SameIsTidy, TidyKeeps
<1> QED
    BY <1>1, <1>2, <1>3, <1>4 DEF HandleCalculate

\* Identifiers become employees: whichever adjustments count, they are of the request.
LEMMA ResolvesKeepsSlips ==
    ASSUME Inv, SlipInv, NEW c \in Calls, req' = req, NEW found, Resolves(c, found)
    PROVE  SlipInv'
<1>1. PICK given : given = req[c].adjustments
    OBVIOUS
<1>2. req[c].op = "calculate" /\ req \in Workloads
    BY DEF Resolves, At, SlipInv, Hand, OwnRequest, Asking, Inv, Rowwise, Shape
<1>3. \A n \in DOMAIN given : AmountsIn(given[n], Int)
    <2>1. ASSUME NEW n \in DOMAIN given
          PROVE  IsPayList(given[n])
        BY <1>1, <1>2, SlipAssumption
    <2>2. ASSUME NEW list, IsPayList(list)
          PROVE  AmountsIn(list, Int)
        BY <2>2, LenProperties DEF IsPayList, AmountsIn, IsList
    <2> QED
        BY <2>1, <2>2
<1>4. PICK adjustments : /\ Reads(c, [adjustments |-> adjustments], "calculate.business")
                         /\ \A e \in DOMAIN adjustments :
                                \E n \in DOMAIN given : adjustments[e] = given[n]
    <2> DEFINE g == req[c].adjustments
               Names(n, e) == n = e \/ (e \in found /\ db.employees[e].email = n)
               named == {e \in DOMAIN db.employees : \E n \in DOMAIN g : Names(n, e)}
               known == {n \in DOMAIN g : \E e \in named : Names(n, e)}
    <2>1. \E who \in [known -> named] :
             /\ \A n \in known : Names(n, who[n])
             /\ \E by \in [Range(who) -> known] :
                    /\ \A e \in Range(who) : who[by[e]] = e
                    /\ Reads(c, [adjustments |-> [e \in Range(who) |-> g[by[e]]]],
                             "calculate.business")
        BY Zenon DEF Resolves
    <2>2. PICK domain : domain = known
        OBVIOUS
    <2>3. domain \subseteq DOMAIN given
        BY <1>1, <2>2
    <2>4. PICK who : \E by \in [Range(who) -> domain] :
              Reads(c, [adjustments |-> [e \in Range(who) |-> given[by[e]]]],
                    "calculate.business")
        <3> HIDE DEF known, named, Names
        <3>1. PICK who \in [known -> named] :
                 \E by \in [Range(who) -> known] :
                     Reads(c, [adjustments |-> [e \in Range(who) |-> g[by[e]]]],
                           "calculate.business")
            BY ONLY <2>1, Zenon
        <3>2. given = g
            BY <1>1
        <3> HIDE DEF g
        <3>3. \E by \in [Range(who) -> domain] :
                  Reads(c, [adjustments |-> [e \in Range(who) |-> given[by[e]]]],
                        "calculate.business")
            BY ONLY <2>2, <3>1, <3>2
        <3> QED
            BY <3>3
    <2> HIDE DEF known, named, Names, g
    <2>5. PICK by \in [Range(who) -> domain] :
              Reads(c, [adjustments |-> [e \in Range(who) |-> given[by[e]]]],
                    "calculate.business")
        BY <2>4
    <2>6. \A e \in Range(who) : by[e] \in DOMAIN given
        BY <2>3, <2>5
    <2>7. PICK adjustments : adjustments = [e \in Range(who) |-> given[by[e]]]
        OBVIOUS
    <2> QED
        BY <2>5, <2>6, <2>7
<1>5. PICK value : value = [adjustments |-> adjustments]
    OBVIOUS
<1>6. \A e \in DOMAIN value.adjustments : AmountsIn(value.adjustments[e], Int)
    BY <1>3, <1>4, <1>5
<1>7. mem'[c] = value /\ pc'[c] = "calculate.business" => SlipInHand(c)'
    BY <1>6 DEF SlipInHand, CalculateLabels
<1>8. Reads(c, value, "calculate.business")
    BY <1>4, <1>5
<1> QED
    BY <1>7, <1>8, ReadsOn DEF CalculateLabels

LEMMA ReadsBusinessKeepsSlips ==
    ASSUME Inv, SlipInv, NEW c \in Calls, req' = req, CalculateReadsBusiness(c)
    PROVE  SlipInv'
<1>1. CASE Answers(c, "error")
    BY <1>1, AnswersPasses, PassesKeeps
<1>2. CASE ~Answers(c, "error")
    <2>1. PICK id, value :
              /\ id = Business(c) /\ FindBusiness(c, id) # Nothing
              /\ value = [adjustments |-> mem[c].adjustments, business |-> db.businesses[id]]
              /\ Reads(c, value, "calculate.employees")
        BY <1>2 DEF CalculateReadsBusiness
    <2>2. id \in DOMAIN db.businesses /\ db.businesses[id] # Nothing
        BY <2>1 DEF FindBusiness, First, Where, Sees
    <2>3. PaysInNaira(db.businesses[id])
        BY <2>2, BusinessRowIsGood DEF GoodBusiness
    <2>4. \A emp \in DOMAIN mem[c].adjustments : AmountsIn(mem[c].adjustments[emp], Int)
        BY <1>2 DEF CalculateReadsBusiness, At, SlipInv, Hand, SlipInHand, CalculateLabels
    <2>5. value.adjustments = mem[c].adjustments /\ value.business = db.businesses[id]
        BY <2>1
    <2>6. mem'[c] = value /\ pc'[c] = "calculate.employees" => SlipInHand(c)'
        BY <2>3, <2>4, <2>5 DEF SlipInHand, CalculateLabels, PaysInNaira
    <2> QED
        BY <2>1, <2>6, ReadsOn DEF CalculateLabels
<1> QED
    BY <1>1, <1>2

\* The tables are as large as they were at the start.
LEMMA TablesAreFinite ==
    ASSUME SlipInv
    PROVE  /\ IsFiniteSet(DOMAIN db.employees) /\ IsFiniteSet(DOMAIN db.rules)
           /\ IsFiniteSet(DOMAIN db.loans)
BY SlipAssumption DEF SlipInv, SlipRows, SlipTables

\* The active employees of the business, with their rents.
LEMMA ReadsEmployeesKeepsSlips ==
    ASSUME Inv, SlipInv, NEW c \in Calls, req' = req, CalculateReadsEmployees(c)
    PROVE  SlipInv'
<1>1. PICK active : active = {e \in FindEmployees(c, Business(c)) : "active" \in db.employees[e].on}
    OBVIOUS
<1>2. PICK value : value = [adjustments |-> mem[c].adjustments, business |-> mem[c].business,
                            staff |-> [e \in active |-> db.employees[e]]]
    OBVIOUS
<1>3. Reads(c, value, "calculate.cadres") /\ pc[c] = "calculate.employees"
    BY <1>1, <1>2 DEF CalculateReadsEmployees, At
<1>4. active \in SUBSET DOMAIN db.employees
    BY <1>1 DEF FindEmployees, Where
<1>5. IsFiniteSet(active)
    BY <1>4, TablesAreFinite, FS_Subset
<1>6. \A e \in active : db.employees[e].rent \in Int
    <2>1. ASSUME NEW e \in active
          PROVE  e \in DOMAIN db.employees /\ db.employees[e] # Nothing
        BY <1>1, <2>1 DEF FindEmployees, Where, Sees
    <2> QED
        BY <2>1, EmployeeRowIsGood DEF GoodEmployee
<1>7. /\ value.adjustments = mem[c].adjustments /\ value.business = mem[c].business
      /\ DOMAIN value.staff = active /\ \A e \in active : value.staff[e] = db.employees[e]
    BY <1>2
<1>8. /\ \A emp \in DOMAIN mem[c].adjustments : AmountsIn(mem[c].adjustments[emp], Int)
      /\ PaysInNaira(mem[c].business)
    BY <1>3 DEF SlipInv, Hand, SlipInHand, CalculateLabels
<1>9. mem'[c] = value /\ pc'[c] = "calculate.cadres" => SlipInHand(c)'
    BY <1>5, <1>6, <1>7, <1>8 DEF SlipInHand, CalculateLabels, PaysInNaira
<1> QED
    BY <1>3, <1>9, ReadsOn DEF CalculateLabels

LEMMA RuleRowIsGood ==
    ASSUME SlipInv, NEW id \in DOMAIN db.rules, db.rules[id] # Nothing
    PROVE  GoodRule(db.rules[id])
<1>1. GoodRow("rules", db.rules[id])
    BY DEF SlipInv, SlipRows, SlipTables
<1> QED
    BY <1>1 DEF GoodRow

LEMMA CadreRowIsGood ==
    ASSUME SlipInv, NEW id \in DOMAIN db.cadres, db.cadres[id] # Nothing
    PROVE  GoodCadre(db.cadres[id])
<1>1. GoodRow("cadres", db.cadres[id])
    BY DEF SlipInv, SlipRows, SlipTables
<1> QED
    BY <1>1 DEF GoodRow

\* The components and rules of the cadres, as they are by now.
LEMMA ReadsCadresKeepsSlips ==
    ASSUME Inv, SlipInv, NEW c \in Calls, req' = req, CalculateReadsCadres(c)
    PROVE  SlipInv'
<1> DEFINE staff == mem[c].staff
           cadres == FindCadres(c, {staff[e].cadre : e \in DOMAIN staff}, Business(c))
           paid == {e \in DOMAIN staff : /\ staff[e].cadre \in cadres
                                         /\ db.cadres[staff[e].cadre].components # <<>>}
           ids(k) == {r \in ListRules(c, Business(c)) : db.rules[r].cadre = k}
           rules(k) == Listed("rules", ids(k))
           payable == [e \in paid |->
                         [rent |-> staff[e].rent, rules |-> rules(staff[e].cadre),
                          components |-> db.cadres[staff[e].cadre].components]]
           value == [adjustments |-> mem[c].adjustments, business |-> mem[c].business,
                     staff |-> payable, loans |-> <<>>]
<1>1. IF paid = {} THEN Answers(c, "error") ELSE Reads(c, value, "calculate.loans")
    BY Zenon DEF CalculateReadsCadres
<1>2. CASE paid = {}
    BY <1>1, <1>2, AnswersPasses, PassesKeeps
<1>3. CASE paid # {}
    <2>1. pc[c] = "calculate.cadres"
        BY DEF CalculateReadsCadres, At
    <2>2. /\ \A emp \in DOMAIN mem[c].adjustments : AmountsIn(mem[c].adjustments[emp], Int)
          /\ PaysInNaira(mem[c].business) /\ IsFiniteSet(DOMAIN staff)
          /\ \A emp \in DOMAIN staff : staff[emp].rent \in Int
        BY <2>1 DEF SlipInv, Hand, SlipInHand, CalculateLabels
    <2>3. paid \in SUBSET DOMAIN staff
        OBVIOUS
    <2>4. IsFiniteSet(paid)
        BY <2>2, <2>3, FS_Subset
    <2>5. ASSUME NEW k
          PROVE  NaturalAmounts => ValuesIn(rules(k), Nat)
        <3>1. ids(k) \in SUBSET DOMAIN db.rules
            BY DEF ListRules, Where
        <3>2. IsFiniteSet(ids(k))
            BY <3>1, TablesAreFinite, FS_Subset
        <3>3. PICK list : list = Listed("rules", ids(k)) /\ list = rules(k)
            OBVIOUS
        <3> HIDE DEF ids, rules
        <3>4. IsList(list) /\ \A i \in DOMAIN list : \E id \in ids(k) : list[i] = db.rules[id]
            BY <3>2, <3>3, ListedRows
        <3>5. \A id \in ids(k) : id \in DOMAIN db.rules /\ db.rules[id] # Nothing
            BY DEF ids, ListRules, Where, Sees
        <3>6. NaturalAmounts => \A id \in ids(k) : db.rules[id].value \in Nat
            BY <3>5, RuleRowIsGood DEF GoodRule
        <3> QED
            BY <3>3, <3>4, <3>6 DEF ValuesIn
    <2>6. ASSUME NEW e \in paid
          PROVE  AmountsIn(db.cadres[staff[e].cadre].components, Amount)
        <3>1. PICK k : k = staff[e].cadre
            OBVIOUS
        <3>2. k \in cadres
            BY <3>1
        <3>3. k \in DOMAIN db.cadres /\ db.cadres[k] # Nothing
            BY <3>2 DEF FindCadres, Where, Sees
        <3> QED
            BY <3>1, <3>3, CadreRowIsGood DEF GoodCadre
    <2>7. /\ DOMAIN payable = paid
          /\ \A e \in paid : /\ payable[e].rent = staff[e].rent
                             /\ payable[e].rules = rules(staff[e].cadre)
                             /\ payable[e].components = db.cadres[staff[e].cadre].components
        BY Zenon
    <2> HIDE DEF payable, rules, ids
    <2>8. /\ \A e \in paid : payable[e].rent \in Int
          /\ \A e \in paid : NaturalAmounts => ValuesIn(payable[e].rules, Nat)
          /\ \A e \in paid : AmountsIn(payable[e].components, Amount)
        BY <2>2, <2>3, <2>5, <2>6, <2>7
    <2>9. Payable(payable)
        BY <2>7, <2>8 DEF Payable
    <2>10. /\ value.adjustments = mem[c].adjustments /\ value.business = mem[c].business
           /\ value.staff = payable /\ value.loans = <<>>
           /\ {"adjustments", "business", "staff", "loans"} \subseteq DOMAIN value
        OBVIOUS
    <2>11. DOMAIN value.loans = {}
        BY <2>10
    <2> HIDE DEF value, staff, paid
    <2>12. mem'[c] = value /\ pc'[c] = "calculate.loans" => SlipInHand(c)'
        <3>1. SUFFICES ASSUME mem'[c] = value, pc'[c] = "calculate.loans"
                       PROVE  SlipInHand(c)'
            OBVIOUS
        <3>2. PaysInNaira(mem'[c].business) /\ Payable(mem'[c].staff)
            BY <2>2, <2>9, <2>10, <3>1
        <3> QED
            BY <2>2, <2>4, <2>7, <2>8, <2>10, <2>11, <3>1, <3>2
                DEF SlipInHand, CalculateLabels, PaysInNaira, Payable
    <2> QED
        BY <1>1, <1>3, <2>12, ReadsOn DEF CalculateLabels
<1> QED
    BY <1>2, <1>3

\* The loans of one employee, or none where they cannot be read.
LEMMA LoansReadKeepSlips ==
    ASSUME Inv, SlipInv, NEW c \in Calls, req' = req, pc[c] = "calculate.loans", NEW emp,
           NEW loans, LoansIn(loans), ReadsLoans(c, emp, loans)
    PROVE  SlipInv'
<1>1. PICK read :
          read = [e \in DOMAIN mem[c].loans \cup {emp} |-> IF e = emp THEN loans ELSE mem[c].loans[e]]
    OBVIOUS
<1>2. PICK value, label :
          /\ value = [mem[c] EXCEPT !.loans = read]
          /\ label = IF DOMAIN read = DOMAIN mem[c].staff THEN "calculate.store" ELSE "calculate.loans"
    OBVIOUS
<1>3. Reads(c, value, label)
    BY <1>1, <1>2 DEF ReadsLoans
<1>4. /\ \A e \in DOMAIN mem[c].adjustments : AmountsIn(mem[c].adjustments[e], Int)
      /\ PaysInNaira(mem[c].business)
      /\ IsFiniteSet(DOMAIN mem[c].staff)
      /\ \A e \in DOMAIN mem[c].staff : mem[c].staff[e].rent \in Int
      /\ {"adjustments", "business", "staff", "loans"} \subseteq DOMAIN mem[c]
      /\ Payable(mem[c].staff)
      /\ \A e \in DOMAIN mem[c].loans : LoansIn(mem[c].loans[e])
    BY DEF SlipInv, Hand, SlipInHand, CalculateLabels
<1>5. /\ DOMAIN value = DOMAIN mem[c] /\ value.loans = read
      /\ value.adjustments = mem[c].adjustments /\ value.business = mem[c].business
      /\ value.staff = mem[c].staff
    BY <1>2, <1>4
<1>6. \A e \in DOMAIN read : LoansIn(read[e])
    BY <1>1, <1>4
<1>7. label \in {"calculate.loans", "calculate.store"}
    BY <1>2
<1>8. mem'[c] = value /\ pc'[c] = label => SlipInHand(c)'
    <2>1. SUFFICES ASSUME mem'[c] = value, pc'[c] = label
                   PROVE  SlipInHand(c)'
        OBVIOUS
    <2>2. PaysInNaira(mem'[c].business) /\ Payable(mem'[c].staff)
        BY <1>4, <1>5, <2>1
    <2>3. pc'[c] = "calculate.store" => DOMAIN mem'[c].loans = DOMAIN mem'[c].staff
        BY <1>2, <1>5, <2>1
    <2> QED
        BY <1>4, <1>5, <1>6, <1>7, <2>1, <2>2, <2>3
            DEF SlipInHand, CalculateLabels, PaysInNaira, Payable
<1> QED
    BY <1>3, <1>7, <1>8, ReadsOn DEF CalculateLabels

LEMMA ReadsLoansKeepsSlips ==
    ASSUME Inv, SlipInv, NEW c \in Calls, req' = req, CalculateReadsLoans(c)
    PROVE  SlipInv'
<1>1. PICK emp : ReadsLoans(c, emp, Listed("loans", FindActiveLoans(c, emp)))
    BY DEF CalculateReadsLoans
<1>2. PICK ids : ids = FindActiveLoans(c, emp)
    OBVIOUS
<1>3. \A id \in ids : id \in DOMAIN db.loans /\ db.loans[id] # Nothing
    BY <1>2 DEF FindActiveLoans, Where, Sees
<1>4. IsFiniteSet(ids)
    BY <1>3, TablesAreFinite, FS_Subset
<1>5. PICK list : list = Listed("loans", ids)
    OBVIOUS
<1>6. IsList(list) /\ \A i \in DOMAIN list : \E id \in ids : list[i] = db.loans[id]
    BY <1>4, <1>5, ListedRows
<1>7. LoansIn(list)
    BY <1>3, <1>6, LoanRowIsGood DEF LoansIn, GoodLoan
<1> QED
    BY <1>1, <1>2, <1>5, <1>7, LoansReadKeepSlips DEF CalculateReadsLoans, At

\* An entry has the columns of an entry and is of its employee.
LEMMA EntryColumns ==
    ASSUME NEW id, NEW business, NEW rent, NEW components, NEW rules, NEW loans,
           NEW adjustments, NEW e,
           e = Entry(id, business, rent, components, rules, loans, adjustments)
    PROVE  IsEntry(e) /\ e.emp = id
<1>1. DOMAIN e = {"emp", "gross", "bonuses", "deductions", "net", "employerCost", "taxable",
                  "paye", "employerPension", "nsitf", "lines"}
    BY Zenon DEF Entry
<1>2. e.emp = id
    BY DEF Entry
<1> QED
    BY <1>1, <1>2 DEF IsEntry

\* The entries of a calculation that has read everything.
LEMMA EntryOfIsGood ==
    ASSUME SlipInv, NEW c \in Calls, pc[c] = "calculate.store", NEW emp \in DOMAIN mem[c].staff,
           NEW entry, entry = EntryOf(c, emp)
    PROVE  /\ IsEntry(entry) /\ entry.emp = emp
           /\ NaturalAmounts => Fits(entry)
           /\ TaxedInNigeria => TaxedByUnit(entry)
<1>1. PICK e, business, loans : e = mem[c].staff[emp] /\ business = mem[c].business
                                 /\ loans = mem[c].loans[emp]
    OBVIOUS
<1>2. PICK given :
          given = IF emp \in DOMAIN mem[c].adjustments THEN mem[c].adjustments[emp] ELSE <<>>
    OBVIOUS
<1>3. PICK rent, components, rules :
          rent = e.rent /\ components = e.components /\ rules = e.rules
    OBVIOUS
<1>4. entry = Entry(emp, business, rent, components, rules, loans, given)
    BY <1>1, <1>2, <1>3 DEF EntryOf
<1>5. SlipInHand(c)
    BY DEF SlipInv, Hand
<1>6. /\ \A x \in DOMAIN mem[c].adjustments : AmountsIn(mem[c].adjustments[x], Int)
      /\ PaysInNaira(business) /\ rent \in Int
      /\ NaturalAmounts => ValuesIn(rules, Nat)
      /\ AmountsIn(components, Amount)
      /\ LoansIn(loans)
    BY <1>1, <1>3, <1>5 DEF SlipInHand, CalculateLabels, Payable
<1>7. AmountsIn(given, Int)
    <2>1. AmountsIn(<<>>, Int)
        BY DEF AmountsIn, IsList
    <2> QED
        BY <1>2, <1>6, <2>1
<1>8. AmountsIn(components, Int)
    BY <1>6 DEF AmountsIn, Amount
<1>9. ASSUME NaturalAmounts
      PROVE  Fits(entry)
    <2>1. AmountsIn(components, Nat) /\ ValuesIn(rules, Nat)
        BY <1>6, <1>9 DEF Amount
    <2> QED
        BY <1>4, <1>6, <1>7, <2>1, EntryFits
<1>10. ASSUME TaxedInNigeria
       PROVE  TaxedByUnit(entry)
    <2>1. business.currency # "GHS"
        BY <1>6, <1>10 DEF PaysInNaira
    <2> QED
        BY <1>4, <1>6, <1>8, <2>1, EntryTaxed
<1>11. IsEntry(entry) /\ entry.emp = emp
    BY <1>4, EntryColumns DEF IsEntry
<1> QED
    BY <1>9, <1>10, <1>11

\* The run that is stored is made of such entries, one for each employee.
LEMMA StoreKeepsSlips ==
    ASSUME Inv, SlipInv, NEW c \in Calls, req' = req, CreateAndStorePayrollRun(c)
    PROVE  SlipInv'
<1>1. PICK staff, by : staff = DOMAIN mem[c].staff /\ by = [emp \in staff |-> EntryOf(c, emp)]
    OBVIOUS
<1>2. PICK entries : entries = {EntryOf(c, emp) : emp \in staff}
    OBVIOUS
<1>3. PICK run : run = RunOf(Business(c), entries)
    OBVIOUS
<1>4. pc[c] = "calculate.store" /\ WritesAndAnswers(c, Put("runs", c, run), "ok")
    BY <1>1, <1>2, <1>3 DEF CreateAndStorePayrollRun, At
<1>5. \A emp \in staff : /\ IsEntry(by[emp]) /\ by[emp].emp = emp
                         /\ NaturalAmounts => Fits(by[emp])
                         /\ TaxedInNigeria => TaxedByUnit(by[emp])
    BY <1>1, <1>4, EntryOfIsGood
<1>6. entries = {by[emp] : emp \in staff}
    BY <1>1, <1>2
<1>7. IsFiniteSet(staff)
    BY <1>1, <1>4 DEF SlipInv, Hand, SlipInHand
<1>8. IsFiniteSet(entries)
    <2>1. by \in Surjection(staff, entries)
        BY <1>1, <1>2 DEF Surjection
    <2> QED
        BY <1>7, <2>1, FS_Surjection
<1>9. \A e \in entries : /\ IsEntry(e)
                         /\ NaturalAmounts => Fits(e)
                         /\ TaxedInNigeria => TaxedByUnit(e)
    BY <1>5, <1>6
<1>10. \A x, y \in entries : x.emp = y.emp => x = y
    BY <1>5, <1>6
<1>11. NaturalAmounts => AddsUp(run)
    BY <1>3, <1>8, <1>9, <1>10, RunFits
<1>12. IsRun(run) /\ run.entries = entries
    BY <1>3, <1>9 DEF RunOf, IsRun
<1>13. GoodRow("runs", run)
    BY <1>9, <1>11, <1>12 DEF GoodRow, GoodRun
<1>14. db' = Put("runs", c, run) => Tidy
    BY <1>13, PutIsTidy
<1> QED
    BY <1>4, <1>14, WritesAndAnswersPasses, PassesKeeps

LEMMA CalculateKeepsSlips ==
    ASSUME Inv, SlipInv, NEW c \in Calls, req' = req, Calculate(c)
    PROVE  SlipInv'
BY HandleCalculateKeepsSlips, ResolvesKeepsSlips, ReadsBusinessKeepsSlips,
   ReadsEmployeesKeepsSlips, ReadsCadresKeepsSlips, ReadsLoansKeepsSlips, StoreKeepsSlips
   DEF Calculate, CalculateResolves

-----------------------------------------------------------------------------
(* Faults, and the theorems *)

\* A statement fails, and the call ends or an import goes on with the next row.
LEMMA BreaksKeepsSlips ==
    ASSUME Inv, SlipInv, NEW c \in Calls, req' = req, Breaks(c)
    PROVE  SlipInv'
<1>1. ASSUME NEW result, Fails(c, result)
      PROVE  SlipInv'
    BY <1>1, FailsPasses, PassesKeeps
<1>2. ASSUME pc[c] \in HiringLabels, RowEnds(c, "error"), db' = db
      PROVE  SlipInv'
    BY <1>2, SameIsTidy, RowEndsWell
<1> QED
    BY <1>1, <1>2 DEF Breaks, HiringLabels

\* An error that is ignored leaves what was read as it is.
LEMMA IgnoredKeepsSlips ==
    ASSUME Inv, SlipInv, NEW c \in Calls, req' = req, Ignored(c)
    PROVE  SlipInv'
<1>0. DOMAIN pc = Calls /\ DOMAIN mem = Calls /\ DOMAIN answer = Calls
    BY DEF Inv, Rowwise, Shape
<1>1. ASSUME NEW result, Answers(c, result)
      PROVE  SlipInv'
    BY <1>1, AnswersPasses, PassesKeeps
<1>2. ASSUME db' = db, Moves(c), pc'[c] \notin HandLabels
      PROVE  SlipInv'
    BY <1>2, SameIsTidy, PassesKeeps DEF Passes
<1>3. ASSUME NEW value, NEW label, label \notin HandLabels, Reads(c, value, label)
      PROVE  SlipInv'
    <2>1. db' = db /\ Moves(c) /\ pc'[c] = label
        BY <1>0, <1>3 DEF Reads, Goes, Moves
    <2> QED
        BY <1>2, <1>3, <2>1
<1>4. ASSUME NEW step \in Logged, Skips(c, step[2])
      PROVE  SlipInv'
    <2>1. step[2] \notin HandLabels
        BY <1>4 DEF Logged, HandLabels, UserSaves, BusinessSaves, HiringLabels, SavingLabels,
            AskingLabels, CalculateLabels
    <2>2. db' = db /\ Moves(c) /\ pc'[c] = step[2]
        BY <1>0, <1>4 DEF Skips, Writes, Goes, Moves
    <2> QED
        BY <1>2, <2>1, <2>2
<1>5. "submit.balance" \notin HandLabels /\ "dashboard.runs" \notin HandLabels
    BY DEF HandLabels, UserSaves, BusinessSaves, HiringLabels, SavingLabels, AskingLabels,
        CalculateLabels
<1>6. ASSUME CountsEmployees(c, {})
      PROVE  SlipInv'
    BY <1>3, <1>5, <1>6 DEF CountsEmployees
<1>7. ASSUME NEW emp, At(c, "calculate.loans"), ReadsLoans(c, emp, <<>>)
      PROVE  SlipInv'
    <2>1. LoansIn(<<>>)
        BY DEF LoansIn, IsList
    <2> QED
        BY <1>7, <2>1, LoansReadKeepSlips DEF At
<1> QED
    BY <1>1, <1>3, <1>4, <1>5, <1>6, <1>7, ResolvesKeepsSlips DEF Ignored

\* A crash ends all calls and their transactions.
LEMMA CrashKeepsSlips ==
    ASSUME Inv, SlipInv, req' = req, Crash
    PROVE  SlipInv'
<1>1. Tidy
    BY RollbackIsTidy DEF Crash
<1>2. ASSUME NEW c \in Calls
      PROVE  Hand(c)'
    <2>1. mem'[c] = mem[c] /\ (pc'[c] = pc[c] \/ pc'[c] = "done")
        BY DEF Crash
    <2>2. CASE pc'[c] = pc[c]
        BY <1>1, <2>1, <2>2, HandStays
    <2>3. CASE pc'[c] = "done"
        BY <2>3, HandsFree DEF HandLabels, UserSaves, BusinessSaves, HiringLabels, SavingLabels,
            AskingLabels, CalculateLabels
    <2> QED
        BY <2>1, <2>2, <2>3
<1> QED
    BY <1>1, <1>2, TidyKeepsRows DEF SlipInv, NullIsNoEmployee

\* Every step of a call and every fault.
LEMMA NextKeepsSlips ==
    ASSUME Inv, SlipInv, [Next]_allVars
    PROVE  SlipInv'
<1>1. CASE UNCHANGED allVars
    BY <1>1 DEF allVars, vars, SlipInv, NullIsNoEmployee, SlipRows, Hand, OwnRequest, RowInHand,
        SlipInHand
<1>2. CASE Next
    <2>1. req' = req
        BY <1>2 DEF Next, Recorded
    <2>2. ASSUME NEW c \in Calls, Step(c)
          PROVE  SlipInv'
        BY <2>1, <2>2, RegisterKeepsSlips, LogInKeepsSlips, AccountsKeepSlips, HireKeepsSlips,
            EmployKeepsSlips, StructureKeepsSlips, LeavePasses, PassesKeeps, LendKeepsSlips,
            CalculateKeepsSlips DEF Step
    <2>3. CASE Fault
        BY <2>1, <2>3, CrashKeepsSlips, BreaksKeepsSlips, IgnoredKeepsSlips, RegisterKeepsSlips
            DEF Fault
    <2> QED
        BY <1>2, <2>2, <2>3 DEF Next
<1> QED
    BY <1>1, <1>2

\* The tables that SlipAssumption and the assumptions before it allow.
LEMMA InitSlips ==
    ASSUME NullIsNoEmployee, OfficeInit
    PROVE  SlipInv
<1>1. db = Rows0 /\ \A c \in Calls : pc[c] \in {"received", "done"}
    BY DEF OfficeInit, Init
<1>2. ASSUME NEW c \in Calls
      PROVE  Hand(c)
    BY <1>1 DEF Hand, OwnRequest, RowInHand, SlipInHand, Asking, UserSaves, BusinessSaves,
        HiringLabels, SavingLabels, CalculateLabels
<1>3. SlipTables \subseteq DOMAIN Rows0
    BY OfficeAssumption, NamesAssumption, PayAssumption, SlipAssumption DEF SlipTables
<1>4. ASSUME NEW table \in SlipTables, NEW id \in DOMAIN Rows0[table], Rows0[table][id] # Nothing
      PROVE  GoodRow(table, Rows0[table][id])
    <2>1. CASE table = "businesses"
        BY <1>4, <2>1, OfficeAssumption DEF GoodRow, GoodBusiness, PaysInNaira, TaxedInNigeria
    <2>2. CASE table = "users"
        BY <1>4, <2>2, OfficeAssumption DEF GoodRow
    <2>3. CASE table = "employees"
        BY <1>4, <2>3, PayAssumption, SlipAssumption DEF GoodRow, GoodEmployee, Originals
    <2>4. CASE table = "cadres"
        <3>1. PICK cadre : cadre = Rows0.cadres[id]
            OBVIOUS
        <3>2. IsCadre(cadre) /\ IsPayList(cadre.components)
            BY <1>4, <2>4, <3>1, NamesAssumption, SlipAssumption
        <3>3. NaturalAmounts => AreNatural(cadre.components)
            BY <1>4, <2>4, <3>1 DEF NaturalAmounts
        <3> QED
            BY <2>4, <3>1, <3>2, <3>3, PayListAmounts DEF GoodRow, GoodCadre
    <2>5. CASE table = "rules"
        BY <1>4, <2>5, NamesAssumption DEF GoodRow, GoodRule, NaturalAmounts
    <2>6. CASE table = "loans"
        BY <1>4, <2>6, SlipAssumption DEF GoodRow, GoodLoan
    <2>7. CASE table = "runs"
        BY <1>4, <2>7, SlipAssumption DEF GoodRow, GoodRun, TaxedInNigeria
    <2> QED
        BY <2>1, <2>2, <2>3, <2>4, <2>5, <2>6, <2>7 DEF SlipTables
<1> QED
    BY <1>1, <1>2, <1>3, <1>4 DEF SlipInv, SlipRows

-----------------------------------------------------------------------------
(* The answers of the calls *)

\* What a step of a call does to the answers and to the open transactions.
Says(c) ==
    /\ open' \subseteq open \cup {c}
    /\ \A d \in Calls : answer'[d] = answer[d] \/ answer'[d] \in Answered

LEMMA EndsSays ==
    ASSUME DOMAIN answer = Calls, NEW c \in Calls, NEW result \in Answered, Ends(c, result),
           open' \subseteq open \cup {c}
    PROVE  Says(c)
BY DEF Ends, Says

\* The ways in which a step ends, one by one.
LEMMA ControlSays ==
    ASSUME DOMAIN answer = Calls, NEW c \in Calls
    PROVE  /\ \A result \in Answered :
                  /\ Answers(c, result) => Says(c)
                  /\ Fails(c, result) => Says(c)
                  /\ \A tables : WritesAndAnswers(c, tables, result) => Says(c)
           /\ \A value, label : Reads(c, value, label) => Says(c)
           /\ \A tables, label : Writes(c, tables, label) => Says(c)
           /\ \A label : Skips(c, label) => Says(c)
           /\ \A op, roles, valid : Handle(c, op, roles, valid) => Says(c)
           /\ \A op, roles, rows : Lookup(c, op, roles, rows) => Says(c)
           /\ \A op, roles, rows : Report(c, op, roles, rows) => Says(c)
           /\ \A table, id, label : \A missing \in Answered :
                  Loads(c, table, id, label, missing) => Says(c)
           /\ \A from, business, to : \A missing \in Answered :
                  ReadsBusiness(c, from, business, to, missing) => Says(c)
           /\ \A result \in Answered :
                  RowEnds(c, result) /\ open' = open => Says(c)
           /\ \A from, user, to : InsertUser(c, from, user, to) => Says(c)
           /\ \A employee : \A refused \in Answered :
                  SavesEmployee(c, employee, refused) => Says(c)
           /\ \A table, id, row, tables : SavesNamed(c, table, id, row, tables) => Says(c)
           /\ \A from, to : FindsPending(c, from, to) => Says(c)
<1>2. ASSUME answer' = answer, open' = open
      PROVE  Says(c)
    BY <1>2 DEF Says
<1>3. ASSUME NEW result \in Answered, Answers(c, result)
      PROVE  Says(c)
    BY <1>3, EndsSays DEF Answers
<1>4. ASSUME NEW result \in Answered, Fails(c, result)
      PROVE  Says(c)
    BY <1>4, EndsSays DEF Fails
<1>5. ASSUME NEW result \in Answered, NEW tables, WritesAndAnswers(c, tables, result)
      PROVE  Says(c)
    BY <1>5, EndsSays DEF WritesAndAnswers
<1>6. ASSUME NEW value, NEW label, Reads(c, value, label)
      PROVE  Says(c)
    BY <1>2, <1>6 DEF Reads
<1>7. ASSUME NEW tables, NEW label, Writes(c, tables, label)
      PROVE  Says(c)
    BY <1>2, <1>7 DEF Writes
<1>8. ASSUME NEW label, Skips(c, label)
      PROVE  Says(c)
    BY <1>7, <1>8 DEF Skips
<1>9. {"ok", "error", "missing", "invalid", "conflict", "forbidden"} \subseteq Answered
    BY DEF Answered
<1>10. ASSUME NEW op, NEW roles, NEW valid, Handle(c, op, roles, valid)
       PROVE  Says(c)
    BY <1>3, <1>8, <1>9, <1>10 DEF Handle
<1>11. ASSUME NEW op, NEW roles, NEW rows, Lookup(c, op, roles, rows)
       PROVE  Says(c)
    BY <1>3, <1>6, <1>9, <1>11 DEF Lookup
<1>12. ASSUME NEW op, NEW roles, NEW rows, Report(c, op, roles, rows)
       PROVE  Says(c)
    BY <1>3, <1>6, <1>9, <1>12 DEF Report
<1>13. ASSUME NEW table, NEW id, NEW label, NEW missing \in Answered,
              Loads(c, table, id, label, missing)
       PROVE  Says(c)
    BY <1>3, <1>6, <1>13 DEF Loads
<1>14. ASSUME NEW from, NEW business, NEW to, NEW missing \in Answered,
              ReadsBusiness(c, from, business, to, missing)
       PROVE  Says(c)
    BY <1>13, <1>14 DEF ReadsBusiness
<1>15. ASSUME NEW result \in Answered, RowEnds(c, result), open' = open
       PROVE  Says(c)
    BY <1>2, <1>9, <1>15, EndsSays DEF RowEnds
<1>16. ASSUME NEW from, NEW user, NEW to, InsertUser(c, from, user, to)
       PROVE  Says(c)
    BY <1>4, <1>7, <1>9, <1>16 DEF InsertUser
<1>17. ASSUME NEW employee, NEW refused \in Answered, SavesEmployee(c, employee, refused)
       PROVE  Says(c)
    BY <1>3, <1>5, <1>9, <1>17 DEF SavesEmployee
<1>18. ASSUME NEW table, NEW id, NEW row, NEW tables, SavesNamed(c, table, id, row, tables)
       PROVE  Says(c)
    BY <1>3, <1>5, <1>9, <1>18 DEF SavesNamed
<1>19. ASSUME NEW from, NEW to, FindsPending(c, from, to)
       PROVE  Says(c)
    BY <1>3, <1>9, <1>13, <1>19 DEF FindsPending
<1> QED
    BY <1>3, <1>4, <1>5, <1>6, <1>7, <1>8, <1>10, <1>11, <1>12, <1>13, <1>14, <1>15, <1>16,
       <1>17, <1>18, <1>19

\* Every handler answers with what handlers answer.
LEMMA StepSays ==
    ASSUME DOMAIN answer = Calls, NEW c \in Calls, Step(c)
    PROVE  Says(c)
<1> USE ControlSays
<1>1. Answered = {"ok", "error", "missing", "invalid", "conflict", "forbidden", "unauthorized",
                  "expired", "crashed"}
    BY DEF Answered
<1>2. CASE Register(c)
    <2>1. CASE RegisterCreatesBusiness(c)
        BY <2>1 DEF RegisterCreatesBusiness, Says
    <2>2. CASE RegisterCommits(c)
        BY <1>1, <2>2 DEF RegisterCommits, Says
    <2> QED
        BY <1>1, <1>2, <2>1, <2>2 DEF Register, HandleRegister, RegisterCreatesAdmin,
            RegisterLinksAdmin, RegisterCreatesCadre, RegisterAssignsPlan, RegisterOpensAccount
<1>3. CASE LogIn(c)
    BY <1>1, <1>3 DEF LogIn, HandleLogin, Login, HandleEmployeeLogin, EmployeeLogin,
        HandleCreateLogin, CreateLoginFindsEmployee, CreateLoginCreatesUser,
        CreateLoginLinksEmployee
<1>4. CASE Invite(c)
    BY <1>1, <1>4 DEF Invite, HandleInvite, InviteLooksForUser, InviteCreatesUser, InviteAnswers,
        HandleAccept, AcceptFindsUser, AcceptSavesPassword
<1>5. CASE Recover(c)
    BY <1>1, <1>5 DEF Recover, HandleForgot, ForgotFindsUser, ForgotSavesToken, HandleReset,
        ResetFindsUser, ResetSavesPassword, HandleResend, ResendFindsUser, ResendSavesToken,
        HandleVerify, VerifyFindsUser, VerifySavesUser
<1>6. CASE Manage(c)
    BY <1>1, <1>6 DEF Manage, HandleSettings, SettingsRead, SettingsSave, HandleSuspend,
        SuspendReads, SuspendOrganization, HandleActivate, ActivateReads, ActivateOrganization
<1>7. CASE Bill(c)
    BY <1>1, <1>7 DEF Bill, HandleSubscribe, SubscribeFindsPlan, AssignFreePlan,
        InitializeTransaction, SubscribeCreates, SubscribeInvoices, SubscribeReads,
        SubscribeSaves, HandleCancelSubscription, CancelFindsSubscription, CancelSaves,
        CancelReads, CancelDowngrades
<1>8. CASE Hire(c)
    BY <1>1, <1>8 DEF Hire, HandleCreateEmployee, HandleImport, HireFindsCadre, HireChecksEmail,
        HireVerifiesAccount, HireInserts, InsertEmployee
<1>9. CASE Employ(c)
    BY <1>1, <1>9 DEF Employ, HandleUpdateEmployee, HandleUpdateBankDetails, UpdateFindsEmployee,
        UpdateFindsCadre, UpdateVerifiesAccount, UpdateSaves, HandleDeactivate,
        DeactivateFindsEmployee, DeactivateSaves
<1>10. CASE Structure(c)
    BY <1>1, <1>10 DEF Structure, HandleCreateCadre, CreateCadreChecks, CreateCadreInserts,
        HandleUpdateCadre, UpdateCadre, HandleDeleteCadre, DeleteCadre, HandleCreateRule,
        CreateDeductionRule, HandleUpdateRule, UpdateDeductionRule, HandleDeleteRule,
        DeleteDeductionRule
<1>11. CASE TakeLeave(c)
    BY <1>1, <1>11 DEF TakeLeave, HandleCreateLeaveType, CreateLeaveType, HandleSubmitLeave,
        SubmitFindsBalance, SubmitCreatesBalance, SubmitInserts, HandleApproveLeave,
        ApproveFindsLeave, ApproveChecksBalance, ApproveSaves, ApproveDeducts,
        HandleRejectLeave, RejectFindsLeave, RejectSaves
<1>12. CASE Lend(c)
    BY <1>1, <1>12 DEF Lend, HandleCreateLoan, CreateLoan, HandleCancelLoan, CancelFindsLoan,
        CancelSavesLoan
<1>13. CASE Look(c)
    BY <1>1, <1>13 DEF Look, GetEmployeeByID, ListEmployees, GetCadreByID, ListAllCadres,
        ListDeductionRules, ListLoans, ListLeaveTypes, ListLeaveRequests, GetLeaveBalances,
        GetProfile, GetSettings, GetPlans, GetSubscription, ListInvoices, ListPayrollRuns,
        GetStats, ListOrganizations, HandlePAYEReport, HandlePensionSchedule, HandleNHFSchedule,
        HandleBankSchedule, HandlePayrollSummary, HandleAllPayslips, HandlePayslip,
        GetPayrollRunByID, GetPayrollStatus, GetPayslips, HandleDashboard, GetSummaryEmployees,
        CountsEmployees, GetSummaryRuns, GetSummaryEnds, Shows
<1>14. CASE Calculate(c)
    BY <1>1, <1>14 DEF Calculate, HandleCalculate, CalculateResolves, Resolves,
        CalculateReadsBusiness, CalculateReadsEmployees, CalculateReadsCadres,
        CalculateReadsLoans, ReadsLoans, CreateAndStorePayrollRun
<1> QED
    BY <1>2, <1>3, <1>4, <1>5, <1>6, <1>7, <1>8, <1>9, <1>10, <1>11, <1>12, <1>13, <1>14 DEF Step

\* Answers, open transactions and faults have their types.
Said ==
    /\ open \subseteq Calls
    /\ \A c \in Calls : answer[c] \in Answered \cup {Nothing}
    /\ faults \in 0 .. MaxFaults

LEMMA FaultSays ==
    ASSUME DOMAIN answer = Calls, NEW c \in Calls, Breaks(c) \/ Ignored(c) \/ RegisterAborts(c)
    PROVE  Says(c)
<1> USE ControlSays
<1>1. Answered = {"ok", "error", "missing", "invalid", "conflict", "forbidden", "unauthorized",
                  "expired", "crashed"}
    BY DEF Answered
<1>2. CASE Breaks(c)
    BY <1>1, <1>2 DEF Breaks
<1>3. CASE Ignored(c)
    BY <1>1, <1>3 DEF Ignored, Resolves, CountsEmployees, ReadsLoans
<1>4. CASE RegisterAborts(c)
    BY <1>4 DEF RegisterAborts, Says
<1> QED
    BY <1>2, <1>3, <1>4

LEMMA NextKeepsSaid ==
    ASSUME Inv, Said, [Next]_allVars
    PROVE  Said'
<1>0. DOMAIN answer = Calls /\ MaxFaults \in Nat
    BY SlipAssumption DEF Inv, Rowwise, Shape
<1>1. CASE UNCHANGED allVars
    BY <1>1 DEF allVars, vars, Said
<1>2. ASSUME NEW c \in Calls, Says(c), faults' \in 0 .. MaxFaults
      PROVE  Said'
    BY <1>2 DEF Says, Said
<1>3. ASSUME NEW c \in Calls, Step(c)
      PROVE  Said'
    <2>1. faults' = faults
        BY <1>3 DEF Step
    <2> QED
        BY <1>0, <1>2, <1>3, <2>1, StepSays DEF Said
<1>4. CASE Fault
    <2>1. faults' \in 0 .. MaxFaults
        BY <1>0, <1>4 DEF Fault, Said
    <2>2. ASSUME NEW c \in Calls, Breaks(c) \/ Ignored(c) \/ RegisterAborts(c)
          PROVE  Said'
        BY <1>0, <1>2, <2>1, <2>2, FaultSays
    <2>3. CASE Crash
        BY <2>1, <2>3 DEF Crash, Said, Answered
    <2> QED
        BY <1>4, <2>2, <2>3 DEF Fault
<1> QED
    BY <1>1, <1>3, <1>4 DEF Next

-----------------------------------------------------------------------------
(* The theorems *)

\* The invariant of the payslips.
LEMMA SlipsHold == NullIsNoRow /\ NullIsNoEmployee /\ Spec => []SlipInv
<1>1. NullIsNoEmployee /\ OfficeInit => SlipInv
    BY InitSlips
<1>2. Inv /\ SlipInv /\ [Next]_allVars => SlipInv'
    BY NextKeepsSlips
<1> QED
    BY <1>1, <1>2, InvHolds, PTL DEF Spec

\* The invariant of the answers.
LEMMA SaidHolds == NullIsNoRow /\ Spec => []Said
<1>1. OfficeInit => Said
    BY SlipAssumption DEF OfficeInit, Init, Said
<1>2. Inv /\ Said /\ [Next]_allVars => Said'
    BY NextKeepsSaid
<1> QED
    BY <1>1, <1>2, InvHolds, PTL DEF Spec

\* The rows of these tables are good.
LEMMA RowsAreGood ==
    ASSUME SlipInv, NEW table \in SlipTables, NEW row \in Rows(table)
    PROVE  GoodRow(table, row)
BY DEF SlipInv, SlipRows, Rows

\* Every row has the columns of its table, whatever is written over what was read earlier
\* (Updates and Save of GORM), transactions are those of registrations in progress, and calls
\* are answered with what the handlers answer.
THEOREM OfficeTypes == NullIsNoRow /\ NullIsNoEmployee /\ Spec => []TypeOK
<1>1. Inv /\ SlipInv /\ Said => TypeOK
    <2> SUFFICES ASSUME Inv, SlipInv, Said PROVE TypeOK
        OBVIOUS
    <2>1. ASSUME NEW table \in SlipTables, NEW row \in Rows(table)
          PROVE  GoodRow(table, row)
        BY <2>1, RowsAreGood
    <2>2. \A b \in Rows("businesses") : IsBusiness(b)
        BY <2>1 DEF SlipTables, GoodRow, GoodBusiness
    <2>3. \A u \in Rows("users") : IsUser(u)
        BY <2>1 DEF SlipTables, GoodRow
    <2>4. \A e \in Rows("employees") : IsEmployee(e)
        BY <2>1 DEF SlipTables, GoodRow, GoodEmployee
    <2>5. \A k \in Rows("cadres") : IsCadre(k)
        BY <2>1 DEF SlipTables, GoodRow, GoodCadre
    <2>6. \A r \in Rows("rules") : IsRule(r)
        BY <2>1 DEF SlipTables, GoodRow, GoodRule
    <2>7. \A r \in Rows("runs") : IsRun(r)
        BY <2>1 DEF SlipTables, GoodRow, GoodRun
    <2>8. ASSUME NEW c \in open
          PROVE  c \in Calls /\ req[c].op = "register" /\ pc[c] # "done"
        <3>1. c \in Calls
            BY DEF Said
        <3> QED
            BY <3>1 DEF Inv, Call, OwnPath, Registration, RegisterLabels, Registering
    <2> QED
        BY <2>2, <2>3, <2>4, <2>5, <2>6, <2>7, <2>8 DEF TypeOK, Said
<1> QED
    BY <1>1, InvHolds, SlipsHold, SaidHolds, PTL

\* What a payslip shows is what is paid, and the reports come to the same sums
\* (calculateEmployeeEntry, CalculatePayrollRun and the generators of the reports), for all
\* amounts of cadres and values of rules that are not negative, and any adjustments and loans.
THEOREM SlipsAddUp ==
    NullIsNoRow /\ NullIsNoEmployee /\ NaturalAmounts /\ Spec => []PayslipsAddUp
<1>1. NaturalAmounts /\ SlipInv => PayslipsAddUp
    BY RowsAreGood DEF SlipTables, GoodRow, GoodRun, PayslipsAddUp
<1>2. NaturalAmounts /\ [Next]_allVars => NaturalAmounts'
    BY DEF NaturalAmounts, AreNatural
<1> QED
    BY <1>1, <1>2, SlipsHold, PTL DEF Spec

\* PAYE is that of the brackets to the rounding (applyBrackets, calculateMonthlyPAYE) whatever
\* the amounts, as long as no business is of Ghana.
THEOREM TaxIsMarginal ==
    NullIsNoRow /\ NullIsNoEmployee /\ TaxedInNigeria /\ Spec => []PAYEIsMarginal
<1>1. TaxedInNigeria /\ SlipInv => PAYEIsMarginal
    BY RowsAreGood DEF SlipTables, GoodRow, GoodRun, PAYEIsMarginal
<1>2. TaxedInNigeria /\ [Next]_allVars => TaxedInNigeria'
    BY DEF TaxedInNigeria
<1> QED
    BY <1>1, <1>2, SlipsHold, PTL DEF Spec
=============================================================================
