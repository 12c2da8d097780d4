-------------------------- MODULE ClientConfigProofs --------------------------
(***************************************************************************)
(* Proofs about ClientConfig, for any values, passwords and command lines. *)
(***************************************************************************)
EXTENDS ClientConfig, TLAPS, WellFoundedInduction

-----------------------------------------------------------------------------
(***************************************************************************)
(* The encoding of the password: what is written is decoded to the same    *)
(* password, and which passwords isValidPass lets through again.           *)
(***************************************************************************)

\* A hexadecimal digit is read back from its character.
LEMMA HexInverse ==
  ASSUME NEW d \in Nat
  PROVE  /\ HexDigit(HexChar(d)) = d
         /\ HexChar(d) \in Nat
  BY DEF HexDigit, HexChar

\* The ranges of characters as inequalities.
LEMMA TypedRange ==
  ASSUME NEW c \in Typed
  PROVE  c \in Int /\ 32 <= c /\ c <= 126
  BY DEF Typed
LEMMA GraphRange ==
  ASSUME NEW c \in Int
  PROVE  c \in Graph <=> 33 <= c /\ c <= 126
  BY DEF Graph

\* The digits of a number, and their characters.
LEMMA DigitRange ==
  ASSUME NEW n \in Nat
  PROVE  /\ n \div 16 \in Nat /\ n % 16 \in Nat /\ n % 16 < 16
         /\ n < 160 => n \div 16 < 10
         /\ n >= 32 => n \div 16 >= 2
  OBVIOUS
LEMMA Recombined ==
  ASSUME NEW n \in Nat, NEW c \in Int, NEW i \in Nat, n = c + i
  PROVE  16 * (n \div 16) + (n % 16) - i = c
  OBVIOUS
LEMMA HexRange ==
  ASSUME NEW d \in Nat
  PROVE  /\ d < 10 => HexChar(d) = 48 + d
         /\ d < 16 => 48 <= HexChar(d) /\ HexChar(d) <= 102
  BY DEF HexChar

\* What is written in hexadecimal is a number from 33 on.
LEMMA ShiftedRange ==
  ASSUME NEW p \in Seq(Typed), NEW i \in 1..Len(p)
  PROVE  /\ Shifted(p, i) = p[i] + i /\ Shifted(p, i) \in Nat /\ p[i] \in Int /\ i \in Nat
         /\ 32 + i <= Shifted(p, i) /\ Shifted(p, i) <= 126 + i
<1>1. p[i] \in Typed /\ i \in Nat
  OBVIOUS
<1>2. p[i] \in Int /\ 32 <= p[i] /\ p[i] <= 126
  BY <1>1, TypedRange
<1> QED
  BY <1>1, <1>2 DEF Shifted

\* The two digits of the i-th character stand at 2i - 1 and 2i.
LEMMA DigitsOf ==
  ASSUME NEW p \in Seq(Typed), NEW i \in 1..Len(p)
  PROVE  /\ 2 * i - 1 \in 1..2 * Len(p) /\ 2 * i \in 1..2 * Len(p)
         /\ Digit(p, 2 * i - 1) = Shifted(p, i) \div 16
         /\ Digit(p, 2 * i) = Shifted(p, i) % 16
<1>1. i \in Nat /\ Len(p) \in Nat /\ i >= 1 /\ i <= Len(p)
  OBVIOUS
<1>2. 2 * i - 1 \in 1..2 * Len(p) /\ 2 * i \in 1..2 * Len(p)
  BY <1>1
<1>3. Owner(2 * i - 1) = i /\ Owner(2 * i) = i
  BY <1>1 DEF Owner
<1>4. (2 * i - 1) % 2 = 1 /\ (2 * i) % 2 = 0
  BY <1>1
<1> QED
  BY <1>2, <1>3, <1>4 DEF Digit

\* An encoded password is twice as long, and at 2i - 1 and 2i it has the digits
\* of the i-th character, moved.
LEMMA EncodedAt ==
  ASSUME NEW p \in Seq(Typed)
  PROVE  /\ Len(string_to_crypt(p)) = 2 * Len(p)
         /\ \A i \in 1..Len(p) :
              /\ string_to_crypt(p)[2 * i - 1]
                   = HexChar(Shifted(p, i) \div 16) + 22 - 2 * i
              /\ string_to_crypt(p)[2 * i]
                   = HexChar(Shifted(p, i) % 16) + 21 - 2 * i
<1>1. Len(p) \in Nat
  OBVIOUS
<1>2. string_to_crypt(p) = [j \in 1..2 * Len(p) |-> HexChar(Digit(p, j)) + 21 - j]
  BY DEF string_to_crypt
<1>3. Len(string_to_crypt(p)) = 2 * Len(p)
  BY <1>1, <1>2
<1>4. ASSUME NEW i \in 1..Len(p)
      PROVE  /\ string_to_crypt(p)[2 * i - 1]
                  = HexChar(Shifted(p, i) \div 16) + 22 - 2 * i
             /\ string_to_crypt(p)[2 * i]
                  = HexChar(Shifted(p, i) % 16) + 21 - 2 * i
  <2>1. Shifted(p, i) \div 16 \in Nat /\ Shifted(p, i) % 16 \in Nat
    BY ShiftedRange
  <2>2. HexChar(Shifted(p, i) \div 16) \in Nat /\ HexChar(Shifted(p, i) % 16) \in Nat
    BY <2>1, HexInverse
  <2>3. string_to_crypt(p)[2 * i - 1]
          = HexChar(Shifted(p, i) \div 16) + 21 - (2 * i - 1)
    BY <1>2, DigitsOf
  <2>4. string_to_crypt(p)[2 * i] = HexChar(Shifted(p, i) % 16) + 21 - 2 * i
    BY <1>2, DigitsOf
  <2> QED
    BY <2>2, <2>3, <2>4
<1> QED
  BY <1>3, <1>4

\* What string_to_crypt has made of a password crypt_to_string makes into the
\* same password, whenever it has room for it.
THEOREM RoundTrip ==
  ASSUME NEW p \in Seq(Typed), 2 * Len(p) < BufferSize
  PROVE  crypt_to_string(string_to_crypt(p)) = p
<1> DEFINE x == string_to_crypt(p)
<1>1. Len(p) \in Nat /\ Len(x) \div 2 = Len(p)
  BY EncodedAt
<1>2. ASSUME NEW i \in 1..Len(p)
      PROVE  16 * Read(x, 2 * i - 1) + Read(x, 2 * i) - i = p[i]
  <2> DEFINE n == Shifted(p, i)
  <2>0. n \in Nat /\ n = p[i] + i /\ p[i] \in Int /\ i \in Nat
    BY ShiftedRange
  <2>a. /\ x[2 * i - 1] = HexChar(n \div 16) + 22 - 2 * i
        /\ x[2 * i] = HexChar(n % 16) + 21 - 2 * i
    BY EncodedAt
  <2> HIDE DEF n, x
  <2>1. n \in Nat /\ n = p[i] + i /\ p[i] \in Int /\ i \in Nat
    BY <2>0
  <2>2. n \div 16 \in Nat /\ n % 16 \in Nat
    BY <2>1, DigitRange
  <2>3. /\ HexChar(n \div 16) \in Nat /\ HexDigit(HexChar(n \div 16)) = n \div 16
        /\ HexChar(n % 16) \in Nat /\ HexDigit(HexChar(n % 16)) = n % 16
    BY <2>2, HexInverse
  <2>4. x[2 * i - 1] - 21 + (2 * i - 1) = HexChar(n \div 16)
    BY <2>1, <2>3, <2>a
  <2>5. x[2 * i] - 21 + 2 * i = HexChar(n % 16)
    BY <2>1, <2>3, <2>a
  <2>6. Read(x, 2 * i - 1) = n \div 16 /\ Read(x, 2 * i) = n % 16
    BY <2>3, <2>4, <2>5 DEF Read
  <2>7. 16 * (n \div 16) + (n % 16) - i = p[i]
    BY <2>1, Recombined
  <2> QED
    BY <2>6, <2>7, Zenon
<1>3. crypt_to_string(x) = [i \in 1..Len(p) |-> 16 * Read(x, 2 * i - 1) + Read(x, 2 * i) - i]
  BY <1>1 DEF crypt_to_string
<1>4. crypt_to_string(x) = [i \in 1..Len(p) |-> p[i]]
  BY <1>2, <1>3
<1> QED
  BY <1>4

\* A password of up to 18 characters is written with characters isValidPass
\* accepts.
THEOREM ShortIsValid ==
  ASSUME NEW p \in Seq(Typed), Len(p) \in 1..18
  PROVE  isValidPass(string_to_crypt(p))
<1>a. \A l \in 1..18 : l \in Nat /\ l > 0 /\ l <= 18
  OBVIOUS
<1>0. Len(p) \in Nat /\ Len(p) > 0 /\ Len(p) <= 18
  BY <1>a
<1> DEFINE x == string_to_crypt(p)
<1>1. ASSUME NEW j \in 1..Len(x)
      PROVE  x[j] \in Graph
  <2>1. PICK i \in 1..Len(p) : j = 2 * i - 1 \/ j = 2 * i
    <3>1. j \in 1..2 * Len(p) /\ Len(p) \in Nat
      BY EncodedAt
    <3>2. Owner(j) \in 1..Len(p) /\ (j = 2 * Owner(j) - 1 \/ j = 2 * Owner(j))
      BY <3>1 DEF Owner
    <3> QED
      BY <3>2
  <2> DEFINE n == Shifted(p, i)
  <2>a. i \in Nat /\ 1 <= i /\ i <= 18
    BY <1>0
  <2>b. n \in Nat /\ 32 + i <= n /\ n <= 126 + i
    BY ShiftedRange
  <2>2. n \in Nat /\ 33 <= n /\ n <= 144
    BY <2>a, <2>b
  <2> HIDE DEF n, x
  <2>3. 2 <= n \div 16 /\ n \div 16 < 10 /\ n \div 16 \in Nat /\ n % 16 < 16 /\ n % 16 \in Nat
    BY <2>2, DigitRange
  <2>4. CASE j = 2 * i - 1
    <3>1. x[j] = HexChar(n \div 16) + 22 - 2 * i
      BY <2>4, EncodedAt DEF n, x
    <3>2. HexChar(n \div 16) = 48 + n \div 16
      BY <2>3, HexRange
    <3>3. x[j] \in Int /\ 33 <= x[j] /\ x[j] <= 126
      BY <2>a, <2>3, <3>1, <3>2
    <3> QED
      BY <3>3, GraphRange
  <2>5. CASE j = 2 * i
    <3>1. x[j] = HexChar(n % 16) + 21 - 2 * i
      BY <2>5, EncodedAt DEF n, x
    <3>2. HexChar(n % 16) \in Nat /\ 48 <= HexChar(n % 16) /\ HexChar(n % 16) <= 102
      BY <2>3, HexRange, HexInverse
    <3>3. x[j] \in Int /\ 33 <= x[j] /\ x[j] <= 126
      BY <2>a, <3>1, <3>2
    <3> QED
      BY <3>3, GraphRange
  <2> QED
    BY <2>1, <2>4, <2>5
<1>3. Len(x) > 0
  BY <1>0, EncodedAt
<1> QED
  BY <1>1, <1>3 DEF isValidPass

\* A password of 24 characters or more is never read back: the first digit of
\* its 24th character is moved out of the characters isValidPass accepts.
THEOREM ValidIsShort ==
  ASSUME NEW p \in Seq(Typed), isValidPass(string_to_crypt(p))
  PROVE  Len(p) < 24
<1> SUFFICES ASSUME Len(p) >= 24 PROVE FALSE
  OBVIOUS
<1>1. 24 \in 1..Len(p) /\ Len(p) \in Nat
  OBVIOUS
<1> DEFINE n == Shifted(p, 24)
           x == string_to_crypt(p)
<1>2. n \in Nat /\ n <= 150
  BY <1>1, ShiftedRange
<1>3. x[47] = HexChar(n \div 16) + 22 - 48
  BY <1>1, EncodedAt, 2 * 24 - 1 = 47, 2 * 24 = 48
<1>4. x[47] \in Graph
  BY <1>1, EncodedAt DEF isValidPass
<1> HIDE DEF n, x
<1>5. n \div 16 \in Nat /\ n \div 16 < 10
  BY <1>2, DigitRange
<1>6. HexChar(n \div 16) = 48 + n \div 16
  BY <1>5, HexRange
<1>7. x[47] \in Int /\ x[47] < 33
  BY <1>3, <1>5, <1>6
<1> QED
  BY <1>4, <1>7, GraphRange

-----------------------------------------------------------------------------
(***************************************************************************)
(* What is written to the file and what is read back from it.              *)
(***************************************************************************)

\* No key is written twice.
LEMMA OrderInjective == \A m, n \in 1..10 : Order[m] = Order[n] => m = n
  BY DEF Order

\* The n-th line is that of the n-th key.
LEMMA LinesAt ==
  ASSUME NEW s
  PROVE  /\ DOMAIN Lines(s) = 1..10 /\ Lines(s) # <<>>
         /\ \A n \in 1..10 : /\ Order[n] \in Keys
                             /\ Lines(s)[n].key = Order[n]
                             /\ Lines(s)[n].value = Printed(Order[n], s[Order[n]])
<1>1. DOMAIN Lines(s) = 1..10
  BY DEF Lines
<1>2. Lines(s) # <<>>
  BY <1>1
<1>3. \A n \in 1..10 : Order[n] \in Keys
  BY DEF Keys
<1>4. \A n \in 1..10 : /\ Lines(s)[n].key = Order[n]
                       /\ Lines(s)[n].value = Printed(Order[n], s[Order[n]])
  BY DEF Lines, Argument
<1> QED
  BY <1>1, <1>2, <1>3, <1>4

\* The three kinds of settings.
LEMMA Kinds ==
  ASSUME NEW key \in Keys
  PROVE  \/ key \in TextKeys /\ key \notin NumberKeys /\ key # "password"
         \/ key \in NumberKeys /\ key # "password" /\ key \notin TextKeys
         \/ key = "password" /\ key \notin NumberKeys /\ key \notin TextKeys
  BY DEF TextKeys, NumberKeys

\* What a setting may hold, by its kind.
LEMMA SettingOf ==
  ASSUME NEW s, Settings(s), NEW key \in Keys
  PROVE  /\ key \in TextKeys   => s[key] \in Texts \cup {""}
         /\ key \in NumberKeys => s[key] \in Numbers \cup {0}
         /\ key = "password"   => s[key] \in Seq(Typed)
<1>1. s[key] = Unset[key] \/ Value(key, s[key])
  BY DEF Settings
<1>2. <<>> \in Seq(Typed)
  OBVIOUS
<1>3. Unset[key] = IF key \in NumberKeys THEN 0 ELSE IF key = "password" THEN <<>> ELSE ""
  BY DEF Unset
<1> QED
  BY <1>1, <1>2, <1>3, Kinds DEF Value

\* A line that is valid is parsed to what was written.
LEMMA ValidIsParsed ==
  ASSUME NEW s, Settings(s), NEW key \in Keys, Valid(key, Printed(key, s[key]))
  PROVE  Parsed(key, Printed(key, s[key])) = s[key]
<1>1. CASE key = "password"
  <2>1. s[key] \in Seq(Typed)
    BY <1>1, SettingOf
  <2>2. Printed(key, s[key]) = string_to_crypt(s[key])
    BY <1>1 DEF Printed
  <2>3. isValidPass(string_to_crypt(s[key]))
    BY <1>1, <2>2 DEF Valid
  <2>4. 2 * Len(s[key]) < BufferSize
    BY <2>1, <2>3, ValidIsShort DEF BufferSize
  <2> QED
    BY <1>1, <2>1, <2>2, <2>4, RoundTrip DEF Parsed
<1>2. CASE key = "secondsToDelay"
  <2>1. key \in NumberKeys
    BY <1>2 DEF NumberKeys
  <2>2. Printed(key, s[key]) # NotDigits
    BY <1>2, <2>1 DEF Valid
  <2>3. Printed(key, s[key]) = s[key]
    BY <1>2, <2>2 DEF Printed
  <2> QED
    BY <1>2, <2>3 DEF Parsed
<1>3. CASE key # "password" /\ key # "secondsToDelay"
  BY <1>3 DEF Printed, Parsed
<1> QED
  BY <1>1, <1>2, <1>3

\* Each setting that is loaded is the one that was written, or none.
LEMMA LoadedIsSaved ==
  ASSUME NEW s, Settings(s), NEW key \in Keys
  PROVE  Loaded(Lines(s))[key] \in {Unset[key], s[key]}
<1> DEFINE places == {n \in DOMAIN Lines(s) : Lines(s)[n].key = key /\ Reached(Lines(s), n)}
<1>1. Loaded(Lines(s))[key] =
        IF places = {} THEN Unset[key]
        ELSE Parsed(key, Lines(s)[CHOOSE n \in places : TRUE].value)
  BY DEF Loaded
<1>2. ASSUME NEW n \in places
      PROVE  Parsed(key, Lines(s)[n].value) = s[key]
  <2>1. n \in 1..10 /\ Order[n] = key /\ Reached(Lines(s), n)
    BY LinesAt
  <2>2. Valid(Lines(s)[n].key, Lines(s)[n].value)
    BY <2>1 DEF Reached
  <2>3. Lines(s)[n].key = key /\ Lines(s)[n].value = Printed(key, s[key])
    BY <2>1, LinesAt
  <2> QED
    BY <2>2, <2>3, ValidIsParsed
<1> HIDE DEF places
<1>3. CASE places = {}
  BY <1>1, <1>3
<1>4. CASE places # {}
  <2>1. (CHOOSE n \in places : TRUE) \in places
    BY <1>4
  <2> QED
    BY <1>1, <1>2, <1>4, <2>1
<1> QED
  BY <1>3, <1>4

\* What is assumed of the values of the settings.
LEMMA ValuesAssumed == BadText \notin Texts /\ "" \notin Texts /\ Numbers \subseteq Nat
  BY ConstantsAssumption, Zenon

LEMMA MillionIsNat == Million \in Nat
  BY SMT DEF Million

\* Settings that are simple are written so that every line is valid.
LEMMA SimpleIsValid ==
  ASSUME NEW s, Settings(s), Simple(s), NEW key \in Keys
  PROVE  Valid(key, Printed(key, s[key]))
<1>1. CASE key = "password"
  <2>1. s["password"] \in Seq(Typed)
    BY <1>1, SettingOf
  <2>2. Len(s["password"]) \in 1..18
    BY DEF Simple
  <2>3. isValidPass(string_to_crypt(s["password"]))
    BY <2>1, <2>2, ShortIsValid
  <2>4. key \notin NumberKeys /\ key \notin TextKeys /\ key # "unknown"
    BY <1>1, Kinds
  <2>5. Printed(key, s[key]) = string_to_crypt(s["password"])
    BY <1>1 DEF Printed
  <2> QED
    BY <1>1, <2>3, <2>4, <2>5 DEF Valid
<1>2. CASE key \in NumberKeys
  <2>0. s[key] \in Numbers \cup {0}
    BY <1>2, SettingOf
  <2>1. s[key] \in Nat
    <3>1. Numbers \subseteq Nat
      BY ValuesAssumed, Zenon
    <3>2. 0 \in Nat
      OBVIOUS
    <3> QED
      BY <2>0, <3>1, <3>2, Zenon
  <2>2. key # "password"
    BY <1>2 DEF NumberKeys
  <2>3. Printed(key, s[key]) = s[key]
    BY <2>1, <2>2, MillionIsNat DEF Printed, Simple
  <2>4. key \notin TextKeys /\ key # "unknown"
    BY <1>2, Kinds DEF NumberKeys
  <2>5. s[key] # NotDigits
    BY <2>1 DEF NotDigits
  <2> QED
    BY <2>2, <2>3, <2>4, <2>5 DEF Valid
<1>3. CASE key \in TextKeys
  <2>1. s[key] \in Texts \cup {""} /\ key # "password" /\ key \notin NumberKeys
    BY <1>3, SettingOf, Kinds
  <2>2. Printed(key, s[key]) = s[key]
    BY <2>1 DEF Printed, NumberKeys
  <2>3. s[key] # BadText
    BY <2>1, ValuesAssumed DEF BadText
  <2>4. key # "unknown"
    BY DEF Keys, Order
  <2> QED
    BY <1>3, <2>1, <2>2, <2>3, <2>4 DEF Valid
<1> QED
  BY <1>1, <1>2, <1>3, Kinds

\* Settings that are simple are loaded as they were saved.
LEMMA SimpleIsLoaded ==
  ASSUME NEW s, Settings(s), Simple(s)
  PROVE  Loaded(Lines(s)) = s
<1>1. ASSUME NEW n \in 1..10
      PROVE  Reached(Lines(s), n)
  <2>1. ASSUME NEW m \in 1..n
        PROVE  Valid(Lines(s)[m].key, Lines(s)[m].value)
    <3>1. m \in 1..10
      OBVIOUS
    <3>2. /\ Order[m] \in Keys
          /\ Lines(s)[m].key = Order[m]
          /\ Lines(s)[m].value = Printed(Order[m], s[Order[m]])
      BY <3>1, LinesAt, Zenon
    <3> QED
      BY <3>2, SimpleIsValid, Zenon
  <2> QED
    BY <2>1 DEF Reached
<1>2. ASSUME NEW key \in Keys
      PROVE  Loaded(Lines(s))[key] = s[key]
  <2> DEFINE places == {n \in DOMAIN Lines(s) : Lines(s)[n].key = key /\ Reached(Lines(s), n)}
  <2>1. PICK k \in 1..10 : Order[k] = key
    BY DEF Keys
  <2>2. places = {k}
    <3>1. /\ DOMAIN Lines(s) = 1..10
          /\ \A n \in 1..10 : Lines(s)[n].key = Order[n]
      BY LinesAt, Zenon
    <3>2. places = {n \in 1..10 : Order[n] = key}
      BY <3>1, <1>1, Zenon
    <3> QED
      BY <2>1, <3>2, OrderInjective, Zenon
  <2>3. Loaded(Lines(s))[key] =
          IF places = {} THEN Unset[key]
          ELSE Parsed(key, Lines(s)[CHOOSE n \in places : TRUE].value)
    BY DEF Loaded
  <2> HIDE DEF places
  <2>4. (CHOOSE n \in places : TRUE) = k /\ places # {}
    BY <2>2
  <2>5. Loaded(Lines(s))[key] = Parsed(key, Lines(s)[k].value)
    BY <2>3, <2>4
  <2>6. Lines(s)[k].value = Printed(key, s[key])
    BY <2>1, LinesAt
  <2> QED
    BY <2>5, <2>6, SimpleIsValid, ValidIsParsed
<1>3. /\ Loaded(Lines(s)) = [key \in Keys |-> Loaded(Lines(s))[key]]
      /\ s = [key \in Keys |-> s[key]]
  BY DEF Loaded, Settings
<1>4. [key \in Keys |-> Loaded(Lines(s))[key]] = [key \in Keys |-> s[key]]
  BY <1>2, Zenon
<1> QED
  BY <1>3, <1>4, Zenon

\* Of an empty file nothing is loaded.
LEMMA NothingIsLoaded == Loaded(<<>>) = Unset
<1>1. ASSUME NEW key \in Keys PROVE Loaded(<<>>)[key] = Unset[key]
  BY DEF Loaded
<1>2. /\ Loaded(<<>>) = [key \in Keys |-> Loaded(<<>>)[key]]
      /\ Unset = [key \in Keys |-> Unset[key]]
  BY DEF Loaded, Unset
<1>3. [key \in Keys |-> Loaded(<<>>)[key]] = [key \in Keys |-> Unset[key]]
  BY <1>1, Zenon
<1> QED
  BY <1>2, <1>3, Zenon

-----------------------------------------------------------------------------
(***************************************************************************)
(* The arguments.                                                          *)
(***************************************************************************)

\* Of the places in a sequence, some come last.  (The distances from the end
\* have a smallest one, < being well founded.)
LEMMA LastExists ==
  ASSUME NEW n \in Nat, NEW S \in SUBSET (1..n), S # {}
  PROVE  \E k \in S : \A m \in S : m <= k
<1> DEFINE distances == {n - k : k \in S}
<1> DEFINE less == {pair \in Nat \X Nat : pair[1] < pair[2]}
<1>1. distances \subseteq Nat
  <2>1. \A k \in S : n - k \in Nat
    OBVIOUS
  <2> QED
    BY <2>1, Zenon
<1>2. distances # {}
  BY Zenon
<1> HIDE DEF distances
<1>3. IsWellFoundedOn(OpToRel(<, Nat), Nat) = IsWellFoundedOn(less, Nat)
  BY DEF OpToRel
<1> HIDE DEF less
<1>4. IsWellFoundedOn(less, Nat)
  BY <1>3, NatLessThanWellFounded, Zenon
<1>5. PICK x \in distances : \A y \in distances : ~ (<<y, x>> \in less)
  BY <1>1, <1>2, <1>4, WFMin, Zenon
<1>6. \A y \in distances : x <= y
  <2>1. SUFFICES ASSUME NEW y \in distances, y < x PROVE FALSE
    BY <1>1
  <2>2. y \in Nat /\ x \in Nat
    BY <1>1
  <2>3. <<y, x>> \in less
    BY <2>1, <2>2 DEF less
  <2> QED
    BY <2>3, <1>5
<1>7. PICK k \in S : x = n - k
  BY <1>5 DEF distances
<1>8. \A m \in S : n - k <= n - m
  BY <1>6, <1>7 DEF distances
<1> QED
  BY <1>8

\* The arguments of a run are a sequence of arguments.
LEMMA ArgumentsOf ==
  ASSUME arguments \in CommandLines \cup {<<>>}
  PROVE  /\ \E len \in Nat : DOMAIN arguments = 1..len
         /\ \A n \in DOMAIN arguments : AnArgument(arguments[n])
<1>1. CASE arguments \in CommandLines
  <2>1. /\ arguments \in Seq({arguments[n] : n \in DOMAIN arguments})
        /\ \A n \in DOMAIN arguments : AnArgument(arguments[n])
    BY <1>1, ConstantsAssumption, Zenon
  <2> QED
    BY <2>1
<1>2. CASE arguments = <<>>
  BY <1>2
<1> QED
  BY <1>1, <1>2

\* A setting that some argument sets is set by one that is processed.
LEMMA SettingIsProcessed ==
  ASSUME arguments \in CommandLines \cup {<<>>}, NEW key, Setting(key) # 0
  PROVE  /\ Setting(key) \in DOMAIN arguments
         /\ arguments[Setting(key)].key = key
         /\ key # "password" => Valid(key, arguments[Setting(key)].value)
<1> DEFINE places == {n \in DOMAIN arguments :
                        /\ arguments[n].key = key
                        /\ Processed(IF key = "password" THEN n - 1 ELSE n)}
<1>1. Setting(key) = IF places = {} THEN 0 ELSE CHOOSE n \in places : \A m \in places : m <= n
  BY DEF Setting
<1>2. PICK len \in Nat : DOMAIN arguments = 1..len
  BY ArgumentsOf
<1>3. places \in SUBSET (1..len)
  BY <1>2
<1> HIDE DEF places
<1>4. places # {}
  BY <1>1
<1>5. \E n \in places : \A m \in places : m <= n
  BY <1>3, <1>4, LastExists
<1>6. Setting(key) \in places
  BY <1>1, <1>4, <1>5
<1> USE DEF places
<1>7. Setting(key) \in DOMAIN arguments /\ arguments[Setting(key)].key = key
  BY <1>6, Zenon
<1>8. ASSUME key # "password"
      PROVE  Valid(key, arguments[Setting(key)].value)
  <2>1. Processed(Setting(key))
    BY <1>6, <1>8
  <2>2. Setting(key) \in 1..Setting(key)
    BY <1>2, <1>7
  <2> QED
    BY <2>1, <2>2, <1>7 DEF Processed
<1> QED
  BY <1>7, <1>8

\* What the program goes on with is a value of the setting.
LEMMA ArguedIsValue ==
  ASSUME arguments \in CommandLines \cup {<<>>}, NEW key \in Keys
  PROVE  Value(key, Argued(key))
<1>1. CASE Setting(key) = 0
  <2>1. Argued(key) = Defaults[key]
    BY <1>1 DEF Argued
  <2>2. Value(key, Defaults[key])
    BY ConstantsAssumption, Zenon
  <2> QED
    BY <2>1, <2>2
<1>2. CASE Setting(key) # 0
  <2> DEFINE a == arguments[Setting(key)]
  <2>1. Argued(key) = a.value
    BY <1>2 DEF Argued
  <2>2. /\ Setting(key) \in DOMAIN arguments /\ a.key = key
        /\ key # "password" => Valid(key, a.value)
    BY <1>2, SettingIsProcessed, Zenon
  <2>3. AnArgument(a)
    BY <2>2, ArgumentsOf, Zenon
  <2>4. key \notin {"save", "unknown"}
    BY DEF Keys, Order
  <2> HIDE DEF a
  <2>5. CASE key \in TextKeys
    BY <2>1, <2>2, <2>3, <2>4, <2>5, Kinds, Zenon DEF AnArgument, Valid, Value
  <2>6. CASE key \in NumberKeys
    BY <2>1, <2>2, <2>3, <2>4, <2>6, Kinds, Zenon DEF AnArgument, Valid, Value
  <2>7. CASE key = "password"
    <3>1. a.value \in Passwords
      BY <2>2, <2>3, <2>4, <2>7, Kinds, Zenon DEF AnArgument
    <3>2. Passwords \subseteq Seq(Typed)
      BY ConstantsAssumption, Zenon
    <3> QED
      BY <2>1, <2>7, <3>1, <3>2, Zenon DEF Value
  <2> QED
    BY <2>5, <2>6, <2>7, Kinds
<1> QED
  BY <1>1, <1>2

-----------------------------------------------------------------------------
(***************************************************************************)
(* The invariant.                                                          *)
(***************************************************************************)
IInv == TypeOK /\ ConfIsLoaded

\* What the variables start with are settings.
LEMMA UnsetIsSettings == Settings(Unset)
<1>1. Unset = [key \in Keys |-> Unset[key]]
  BY DEF Unset
<1> QED
  BY <1>1, Zenon DEF Settings

\* A run starts with no password.
LEMMA NoPassword == "password" \in Keys /\ Unset["password"] = <<>>
<1>1. "password" \in Keys
  <2>1. Order[6] = "password"
    BY DEF Order
  <2> QED
    BY <2>1 DEF Keys
<1>2. "password" \notin NumberKeys
  BY DEF NumberKeys
<1>3. Unset["password"] = IF "password" \in NumberKeys THEN 0
                          ELSE IF "password" = "password" THEN <<>> ELSE ""
  BY <1>1, Zenon DEF Unset
<1> QED
  BY <1>1, <1>2, <1>3, Zenon

\* What is loaded from the file are settings.
LEMMA LoadedIsSettings ==
  ASSUME TypeOK
  PROVE  /\ Settings(Loaded(file))
         /\ Loaded(file)["password"] \in {<<>>, saved["password"]}
<1>1. "password" \in Keys /\ Unset["password"] = <<>>
  BY NoPassword
<1>2. CASE file = <<>>
  <2>1. Loaded(file) = Unset
    BY <1>2, NothingIsLoaded
  <2> QED
    BY <2>1, <1>1, UnsetIsSettings
<1>3. CASE file = Lines(saved)
  <2>1. Settings(saved)
    BY DEF TypeOK
  <2>2. \A key \in Keys : Loaded(file)[key] \in {Unset[key], saved[key]}
    BY <1>3, <2>1, LoadedIsSaved, Zenon
  <2>3. \A key \in Keys : Loaded(file)[key] = Unset[key] \/ Value(key, Loaded(file)[key])
    BY <2>1, <2>2, Zenon DEF Settings
  <2>4. Loaded(file) = [key \in Keys |-> Loaded(file)[key]]
    BY DEF Loaded
  <2> QED
    BY <1>1, <2>2, <2>3, <2>4, Zenon DEF Settings
<1> QED
  BY <1>2, <1>3, Zenon DEF TypeOK

\* The password of a run is one that was typed, the default, or the one loaded.
LEMMA PasswordIsArgued ==
  ASSUME arguments \in CommandLines \cup {<<>>}, NEW garbage \in BOOLEAN
  PROVE  Password(garbage) \in {conf["password"], Defaults["password"]}
           \cup {arguments[n].value : n \in {m \in DOMAIN arguments :
                                               arguments[m].key = "password"}}
<1>1. Password(garbage) \in {conf["password"], Argued("password")}
  BY DEF Password
<1>2. CASE Setting("password") = 0
  BY <1>1, <1>2 DEF Argued
<1>3. CASE Setting("password") # 0
  <2>1. Argued("password") = arguments[Setting("password")].value
    BY <1>3 DEF Argued
  <2>2. /\ Setting("password") \in DOMAIN arguments
        /\ arguments[Setting("password")].key = "password"
    BY <1>3, SettingIsProcessed, Zenon
  <2> QED
    BY <1>1, <2>1, <2>2, Zenon
<1> QED
  BY <1>2, <1>3

LEMMA InitInvariant == Init => IInv
  BY UnsetIsSettings DEF Init, IInv, TypeOK, ConfIsLoaded

LEMMA NextInvariant == IInv /\ [Next]_vars => IInv'
<1> SUFFICES ASSUME IInv, [Next]_vars PROVE IInv'
  OBVIOUS
<1> USE DEF IInv
<1>1. CASE ReadConfig
  <2>1. Settings(conf')
    BY <1>1, LoadedIsSettings DEF ReadConfig
  <2> QED
    BY <1>1, <2>1 DEF ReadConfig, TypeOK, ConfIsLoaded
<1>2. CASE ProcessArguments
  <2>1. Settings(conf')
    <3>1. PICK garbage \in BOOLEAN :
            conf' = [key \in Keys |-> IF key = "password" THEN Password(garbage)
                                                          ELSE Argued(key)]
      BY <1>2 DEF ProcessArguments
    <3>2. arguments \in CommandLines \cup {<<>>} /\ Settings(conf)
      BY DEF TypeOK
    <3>3. "password" \in Keys
      BY DEF Keys, Order
    <3>4. conf["password"] = Unset["password"] \/ Value("password", conf["password"])
      BY <3>2, <3>3, Zenon DEF Settings
    <3>5. Value("password", Argued("password"))
      BY <3>2, <3>3, ArguedIsValue, Zenon
    <3>6. \/ Password(garbage) = Unset["password"]
          \/ Value("password", Password(garbage))
      BY <3>4, <3>5, Zenon DEF Password
    <3>7. \A key \in Keys : conf'[key] = Unset[key] \/ Value(key, conf'[key])
      BY <3>1, <3>2, <3>6, ArguedIsValue, Zenon
    <3>8. conf' = [key \in Keys |-> conf'[key]]
      BY <3>1
    <3> QED
      BY <3>7, <3>8, Zenon DEF Settings
  <2> QED
    BY <1>2, <2>1 DEF ProcessArguments, TypeOK, ConfIsLoaded
<1>3. CASE OpenConfig
  BY <1>3 DEF OpenConfig, TypeOK, ConfIsLoaded
<1>4. CASE WriteConfig
  BY <1>4 DEF WriteConfig, TypeOK, ConfIsLoaded
<1>5. CASE Stop
  BY <1>5, UnsetIsSettings DEF Stop, TypeOK, ConfIsLoaded
<1>6. CASE UNCHANGED vars
  BY <1>6 DEF vars, TypeOK, ConfIsLoaded
<1> QED
  BY <1>1, <1>2, <1>3, <1>4, <1>5, <1>6 DEF Next

THEOREM InvariantHolds == Spec => []IInv
  BY InitInvariant, NextInvariant, PTL DEF Spec

-----------------------------------------------------------------------------
(***************************************************************************)
(* The properties.                                                         *)
(***************************************************************************)

\* The settings are values or what they start with, and the file is empty or
\* what was last saved, for any arguments in any order.
THEOREM TypeCorrect == Spec => []TypeOK
<1>1. IInv => TypeOK
  BY DEF IInv
<1> QED
  BY <1>1, InvariantHolds, PTL

\* Simple settings are read back as they were saved, by any later run.
THEOREM SavedIsReadBackHolds == Spec => []SavedIsReadBack
<1>1. IInv => SavedIsReadBack
  <2> SUFFICES ASSUME IInv, pc = "arguments", file # <<>>, Simple(saved)
               PROVE  conf = saved
    BY DEF SavedIsReadBack
  <2>1. file = Lines(saved) /\ Settings(saved) /\ conf = Loaded(file)
    BY DEF IInv, TypeOK, ConfIsLoaded
  <2> QED
    BY <2>1, SimpleIsLoaded
<1> QED
  BY <1>1, InvariantHolds, PTL

\* crypt_to_string never gets more characters than its array has room for,
\* however long the passwords are that are typed.
THEOREM BufferFitsHolds == Spec => []BufferFits
<1>1. IInv => BufferFits
  <2> SUFFICES ASSUME IInv, NEW n \in DOMAIN file,
                      file[n].key = "password", Reached(file, n)
               PROVE  Len(file[n].value) < BufferSize
    BY DEF BufferFits
  <2>1. file = Lines(saved) /\ Settings(saved)
    BY DEF IInv, TypeOK
  <2>2. n \in 1..10 /\ Order[n] \in Keys /\ file[n].key = Order[n]
        /\ file[n].value = Printed(Order[n], saved[Order[n]])
    BY <2>1, LinesAt, Zenon
  <2>3. Order[n] = "password"
    BY <2>2
  <2>4. saved["password"] \in Seq(Typed)
    BY <2>1, <2>2, <2>3, SettingOf
  <2>5. file[n].value = string_to_crypt(saved["password"])
    BY <2>2, <2>3 DEF Printed
  <2>6. isValidPass(file[n].value)
    BY <2>2 DEF Reached, Valid
  <2>7. Len(saved["password"]) < 24
    BY <2>4, <2>5, <2>6, ValidIsShort
  <2>8. Len(file[n].value) = 2 * Len(saved["password"])
    BY <2>4, <2>5 DEF string_to_crypt
  <2> QED
    BY <2>4, <2>7, <2>8 DEF BufferSize
<1> QED
  BY <1>1, InvariantHolds, PTL

\* A password that comes out of settings.config is the one that was saved, for
\* passwords of any length: no run ever goes on with a garbled one.
THEOREM PasswordIsKnownHolds == Spec => []PasswordIsKnown
<1>1. Init => PasswordIsKnown
  BY NoPassword DEF Init, PasswordIsKnown
<1>2. PasswordIsKnown /\ IInv /\ [Next]_vars => PasswordIsKnown'
  <2> SUFFICES ASSUME PasswordIsKnown, IInv, [Next]_vars PROVE PasswordIsKnown'
    OBVIOUS
  <2>1. CASE ReadConfig
    BY <2>1, LoadedIsSettings DEF ReadConfig, PasswordIsKnown, IInv
  <2>2. CASE ProcessArguments
    <3>1. PICK garbage \in BOOLEAN : conf'["password"] = Password(garbage)
      BY <2>2 DEF ProcessArguments, Keys, Order
    <3>2. UNCHANGED <<arguments, saved>>
      BY <2>2 DEF ProcessArguments
    <3>3. arguments \in CommandLines \cup {<<>>}
      BY DEF IInv, TypeOK
    <3> QED
      BY <3>1, <3>2, <3>3, PasswordIsArgued DEF PasswordIsKnown
  <2>3. CASE OpenConfig
    BY <2>3 DEF OpenConfig, PasswordIsKnown
  <2>4. CASE WriteConfig
    BY <2>4 DEF WriteConfig, PasswordIsKnown
  <2>5. CASE Stop
    BY <2>5, NoPassword DEF Stop, PasswordIsKnown
  <2>6. CASE UNCHANGED vars
    BY <2>6 DEF vars, PasswordIsKnown
  <2> QED
    BY <2>1, <2>2, <2>3, <2>4, <2>5, <2>6 DEF Next
<1> QED
  BY <1>1, <1>2, InvariantHolds, PTL DEF Spec

=============================================================================
