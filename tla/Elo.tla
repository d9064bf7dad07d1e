-------------------------------- MODULE Elo --------------------------------
(***************************************************************************)
(* The fixed-point Elo exchange of a rated PvP fight.  The code computes   *)
(* in i64; the two quotients of 10^12 are taken by long division here, so  *)
(* that every intermediate value fits 32 bits.                             *)
(***************************************************************************)
EXTENDS Integers

EloFP == 1000000
PvpEloK == 24

\* 10^(d/400) for d = 0, 40, ..., 800.
Pow10Table == <<1000000, 1258925, 1584893, 1995262, 2511886, 3162278, 3981072,
                5011872, 6309573, 7943282, 10000000, 12589254, 15848932, 19952623,
                25118864, 31622777, 39810717, 50118723, 63095734, 79432823, 100000000>>

\* One more decimal digit of a quotient by n: it is extended and a remainder is left.
NextDigit(qr, n) == <<10 * qr[1] + (10 * qr[2]) \div n, (10 * qr[2]) % n>>

\* EloFP * EloFP divided by n, for n from EloFP to 101 * EloFP.
FpSquaredOver(n) ==
  LET digits[i \in 0..6] ==
        IF i = 0 THEN <<EloFP \div n, EloFP % n>> ELSE NextDigit(digits[i - 1], n)
  IN digits[6][1]

\* Linear between two entries; the table is 1-based here.
Pow10Pos(d) ==
  LET idx == d \div 40 + 1 IN
  IF idx >= 21 THEN Pow10Table[21]
  ELSE Pow10Table[idx]
         + ((Pow10Table[idx+1] - Pow10Table[idx]) * (d % 40)) \div 40

Pow10Ratio(diff) ==
  LET d == CASE diff < -800 -> -800 [] diff > 800 -> 800 [] OTHER -> diff IN
  IF d < 0 THEN FpSquaredOver(Pow10Pos(-d)) ELSE Pow10Pos(d)

ExpectedScoreA(ra, rb) == FpSquaredOver(EloFP + Pow10Ratio(rb - ra))

\* To the nearest, halves away from zero.
RoundDiv(num, den) ==
  IF num >= 0 THEN (num + den \div 2) \div den ELSE -((-num + den \div 2) \div den)

\* Mutant: a loss scores as a draw.
LossAsDraw(ra, rb, won) ==
  RoundDiv(PvpEloK * ((IF won THEN EloFP ELSE EloFP \div 2) - ExpectedScoreA(ra, rb)), EloFP)

EloDelta(ra, rb, won) ==
  RoundDiv(PvpEloK * ((IF won THEN EloFP ELSE 0) - ExpectedScoreA(ra, rb)), EloFP)
=============================================================================
