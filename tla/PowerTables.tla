----------------------------- MODULE PowerTables -----------------------------
(***************************************************************************)
(* The pure functions of the token contracts: the power of watching for a   *)
(* time and of uploading a number of files (BokerTokenPower), the power of  *)
(* binding a wallet (BokerTokenPowerData), and the range of a page          *)
(* (PageUtil in BokerCommon).  The code lists a range of values for every   *)
(* power; here a table is the sequence of the least values of its ranges,   *)
(* so that a value's place in it is the number of ranges begun.             *)
(***************************************************************************)
EXTENDS Integers, Sequences, FiniteSets

CONSTANTS
    AssignPeriod,      \* CfgAssignPeriod, also the greatest watch time
    UploadCountMax     \* CfgUploadCountMax

ASSUME TableAssumption == AssignPeriod \in Nat \ {0} /\ UploadCountMax \in Nat

Least(x, y) == IF x < y THEN x ELSE y

\* How many of the ranges that begin at "from" have begun at v.
Begun(from, v) == Cardinality({i \in 1 .. Len(from) : from[i] <= v})

\* watchGetPower: the i-th range gives power i; the last one ends at 300.
WatchFrom ==
    <<1, 2, 3, 4, 5, 6, 7, 9, 10, 11, 12, 13, 15, 16, 17, 19, 20, 22, 23, 25, 27, 28,
      30, 32, 34, 36, 38, 40, 42, 45, 47, 50, 52, 55, 58, 62, 65, 69, 73, 77, 82, 88,
      94, 101, 109, 119, 131, 147, 171, 219>>

WatchPower(v) == IF v > 300 THEN 0 ELSE Begun(WatchFrom, v)

WatchGetPower(value) == WatchPower(Least(value, AssignPeriod))

\* uploadGetPower: the ranges and their powers; the last one ends at 50.
UploadFrom ==
    [i \in 1 .. 22 |-> i] \o <<23, 25, 26, 27, 29, 31, 34, 38, 44>>

UploadPower ==
    <<10, 19, 27, 34, 41, 47, 52, 57, 61, 65, 69, 72, 75, 77, 80, 82, 84, 85, 87, 88,
      89, 91, 92, 93, 94, 95, 96, 97, 98, 99, 100>>

UploadedPower(v) == IF v = 0 \/ v > 50 THEN 0 ELSE UploadPower[Begun(UploadFrom, v)]

UploadGetPower(value) == UploadedPower(Least(value, UploadCountMax))

\* BokerTokenPowerData: for each type of application the upper ends of the
\* ranges, the last of which is open, and the powers of all of them.
BindWalletUpper ==
    <<<<10, 50, 100, 500, 1000, 5000, 10000>>,
      <<10, 50, 100, 200, 500, 1000>>,
      <<10, 50, 100, 200, 500>>>>

BindWalletPower ==
    <<<<1, 3, 5, 10, 15, 20, 30, 40>>,
      <<1, 3, 5, 10, 20, 30, 40>>,
      <<1, 5, 10, 20, 30, 40>>>>

\* bindWalletGetPower, of the type's sales or users.
BindWalletGetPower(dappType, value) ==
    IF dappType \in DOMAIN BindWalletUpper
    THEN BindWalletPower[dappType][Begun(BindWalletUpper[dappType], value) + 1]
    ELSE 0

-----------------------------------------------------------------------------
LastPage(total, pageSize) ==
    total \div pageSize + (IF total % pageSize = 0 THEN 0 ELSE 1)

\* pageRange: the indexes of the entries on a page, both ends included.  A page
\* past the last is the last.
PageRange(total, page, pageSize) ==
    LET first == ((IF page = 0 THEN 1 ELSE page) - 1) * pageSize
        start == IF first >= total THEN (LastPage(total, pageSize) - 1) * pageSize ELSE first
    IN  CASE total = 0 -> <<0, 0>>
          [] total > 0 /\ pageSize = 0 -> <<0, total - 1>>
          [] OTHER -> <<start, Least(start + pageSize, total) - 1>>
=============================================================================
