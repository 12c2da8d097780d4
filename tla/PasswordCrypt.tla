----------------------------- MODULE PasswordCrypt -----------------------------
(***************************************************************************)
(* How the C++ meter writes a password to settings.config and reads it     *)
(* back: string_to_crypt and crypt_to_string (client/src/MeterMain.cpp)    *)
(* and isValidPass (ValidityCheck.cpp).  A text is the sequence of its     *)
(* character codes.                                                        *)
(*                                                                         *)
(* A character becomes two hexadecimal digits of its code plus its         *)
(* position, and every digit is then moved by 20 less its own position.    *)
(* The code's positions start at 0, those of a sequence at 1.              *)
(***************************************************************************)
EXTENDS Integers, Sequences

Typed   == 32..126      \* what a terminal sends for the keys that print
Graph   == 33..126      \* isgraph
BufferSize == 64        \* of hexCharArr, in crypt_to_string

\* The digits as characters, '0' is 48 and 'a' is 97.
HexChar(d)  == IF d < 10 THEN 48 + d ELSE 87 + d
HexDigit(c) == IF c < 58 THEN c - 48 ELSE c - 87

\* The character a digit of a password belongs to.
Owner(j) == (j + 1) \div 2

\* What is written in hexadecimal for the i-th character.
Shifted(p, i) == p[i] + i

Digit(p, j) == IF j % 2 = 1 THEN Shifted(p, Owner(j)) \div 16
                            ELSE Shifted(p, Owner(j)) % 16

\* Mutated: the digits are moved by the same 20 wherever they are.
string_to_crypt_Even(p) ==
  [j \in 1..2 * Len(p) |-> HexChar(Digit(p, j)) + 20]

\* Two digits a character as long as its code plus position is in 16..255,
\* which the 24 positions that matter do not leave.
string_to_crypt(p) == [j \in 1..2 * Len(p) |-> HexChar(Digit(p, j)) + 21 - j]

\* The digit read from the j-th character of an encoded password.
Read(x, j) == HexDigit(x[j] - 21 + j)

\* Mutated: what is subtracted is the position of the digit.
crypt_to_string_DigitPosition(x) ==
  [i \in 1..Len(x) \div 2 |-> 16 * Read(x, 2 * i - 1) + Read(x, 2 * i) - (2 * i - 1)]

\* The array hex has no room for the NUL at which stoi ends: the text read is
\* taken to end after two digits, as it does in the build of ClientBuild.sh.
crypt_to_string(x) ==
  [i \in 1..Len(x) \div 2 |-> 16 * Read(x, 2 * i - 1) + Read(x, 2 * i) - i]

isValidPass(x) == Len(x) > 0 /\ \A j \in 1..Len(x) : x[j] \in Graph

===============================================================================
