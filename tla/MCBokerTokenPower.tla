------------------------- MODULE MCBokerTokenPower -------------------------
EXTENDS BokerTokenPower, TLC

\* No step tells one user, or one file, from another.
Interchangeable == Permutations(User) \union Permutations(Files)

-----------------------------------------------------------------------------
(* The functions of PowerTables, at every value of their tables. *)

\* e^(-t*n) in 1/Unit for the t of the two tables, by repeated squaring.
Unit == 40000
Factor == [watch |-> 39202, upload |-> 36021]
Decay[t \in DOMAIN Factor, n \in 0 .. 300] ==
    IF n = 0 THEN Unit
    ELSE LET half == Decay[t, n \div 2]
             even == (half * half) \div Unit
         IN  IF n % 2 = 0 THEN even ELSE (even * Factor[t]) \div Unit

\* power is a(1 - decay) rounded to the nearest, a in hundredths; the rest of
\* the 0.6 allows for the decimals that are dropped here.
Rounded(power, a, decay) ==
    LET exact == (a * (Unit - decay)) \div Unit
    IN  100 * power <= exact + 60 /\ exact <= 100 * power + 60

\* The tables are C = A(1-e^(-xt)), with the A and t of the comments above
\* watchGetPower and uploadGetPower.
ASSUME FollowsFormula ==
    /\ \A v \in 0 .. 300 : Rounded(WatchPower(v), 5012, Decay["watch", v])
    /\ \A v \in 0 .. 50 : Rounded(UploadedPower(v), 10053, Decay["upload", v])

\* More never gives less, past the end of any range.
ASSUME PowerNeverFalls ==
    /\ \A v \in 1 .. 300 : WatchPower(v - 1) <= WatchPower(v)
    /\ \A v \in 1 .. 50 : UploadedPower(v - 1) <= UploadedPower(v)
    /\ \A d \in 1 .. 3, v \in 1 .. 1001 :
          BindWalletGetPower(d, v - 1) <= BindWalletGetPower(d, v)

\* Turning the pages one after the other shows each of n entries exactly once
\* and in order, and a page past the last shows the last again (pageRange).
ASSUME PagesCover ==
    \A n \in 1 .. 12, size \in 1 .. 5 :
        LET range(p) == PageRange(n, p, size)
            pages == {p \in 1 .. n : (p - 1) * size < n}
        IN  /\ \A i \in 0 .. n - 1 :
                 Cardinality({p \in pages : range(p)[1] <= i /\ i <= range(p)[2]}) = 1
            /\ \A p \in (1 .. n + 2) \ pages : range(p) = range(Cardinality(pages))
=============================================================================
