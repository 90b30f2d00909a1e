---------------------------- MODULE CheckDigits -----------------------------
(***************************************************************************)
(* The check characters of the identifiers a registration carries          *)
(* (music_publisher/validators).  An identifier is the sequence of the     *)
(* values of its characters: digits, 10 for the X of an ISNI, and 10 to 35 *)
(* for the letters of a DPID.                                              *)
(***************************************************************************)
EXTENDS Integers, Sequences, SequencesExt

Weighted(digits, Weight(_)) ==
  FoldLeftDomain(LAMBDA sum, i : sum + Weight(i) * digits[i], 0, digits)

\* Mutant of ValidEAN: the weights of another scheme.
TwosAndOnes(code) ==
  LET sum == Weighted(Front(code), LAMBDA i : IF (Len(code) - i) % 2 = 1 THEN 2 ELSE 1)
  IN  Last(code) = (10 - (sum % 10)) % 10

\* check_ean_digit: threes and ones, from the right.
ValidEAN(code) ==
  LET sum == Weighted(Front(code), LAMBDA i : IF (Len(code) - i) % 2 = 1 THEN 3 ELSE 1)
  IN  Last(code) = (10 - (sum % 10)) % 10

\* check_iswc_digit, which the IPI base number shares with another start.
ValidISWC(code, weight) ==
  LET sum == weight + Weighted(SubSeq(code, 1, 9), LAMBDA i : i)
  IN  code[10] = (10 - (sum % 10)) % 10

\* check_ipi_digit: the two last digits; 100 is written 00.
ValidIPIName(code) ==
  LET n   == Len(code)
      sum == Weighted(SubSeq(code, 1, n - 2), LAMBDA i : 11 - i) % 101
      check == IF sum = 0 THEN 0 ELSE (101 - sum) % 100
  IN  10 * code[n - 1] + code[n] = check

\* check_isni_digit.
ValidISNI(code) ==
  LET sum == FoldLeft(LAMBDA total, d : 2 * (total + d), 0, Front(code))
  IN  Last(code) = (12 - (sum % 11)) % 11

\* check_dpid: the remainder 0 counts as 36.
ValidDPID(code) ==
  FoldLeft(LAMBDA check, d :
             ((((IF check = 0 THEN 36 ELSE check) * 2) % 37) + d) % 36, 18, code) = 1

=============================================================================
