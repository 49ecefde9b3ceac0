----------------------------- MODULE Assertions -----------------------------
(***************************************************************************)
(* ASSERT, EXPECT and their variants, src/dart/platform/assert.h, as one   *)
(* thread of a program or of a unit test goes through them: what each does *)
(* in a build with DEBUG or TESTING and in one without.                    *)
(*                                                                         *)
(* Assert::Fail does not return.  Expect::Fail sets failed_ and returns;   *)
(* both are in the library.                                                *)
(***************************************************************************)
EXTENDS Integers

CONSTANTS
    Numbers,       \* BOUND: the numbers a test compares
    NotANumber,
    nullptr

ASSUME ChecksAssumption == Numbers \subseteq Int /\ NotANumber \notin Int

\* What a test compares: numbers, and strings of one letter.
Operands == Numbers \cup {NotANumber}
Texts == {"a", "b", nullptr}

Comparisons == {"Equals", "NotEquals", "FloatEquals", "LessThan", "LessEqual",
                "GreaterThan", "GreaterEqual"}

VARIABLES
    build,     \* the macros that are defined
    ending,    \* "running", "aborted", or "undefined" after strcmp of nullptr
    failed,    \* Expect::failed_
    missed     \* HISTORY: an expectation did not hold

checks == <<build, ending, failed, missed>>

NewTest(names) ==
    /\ build = names
    /\ ending = "running" /\ failed = FALSE /\ missed = FALSE

ChecksInit == \E names \in SUBSET {"DEBUG", "TESTING"} : NewTest(names)

-----------------------------------------------------------------------------
(* Assertions.                                                             *)

\* A condition that does not hold ends the program where it is looked at.
Check(looks, holds) ==
    /\ ending = "running"
    /\ ending' = IF looks /\ ~holds THEN "aborted" ELSE ending
    /\ UNCHANGED <<build, failed, missed>>

\* ASSERT, DEBUG_ASSERT, ASSERT_EQUAL and ASSERT_NOTNULL.
ASSERT(holds) == Check("DEBUG" \in build, holds)
RELEASE_ASSERT(holds) == Check(TRUE, holds)
\* FATAL, UNIMPLEMENTED, UNREACHABLE and OUT_OF_MEMORY.
FATAL == Check(TRUE, FALSE)

-----------------------------------------------------------------------------
(* Expectations, in a build for tests.                                     *)

\* The operators of C++ on numbers: NaN is unordered.
Less(a, b) == NotANumber \notin {a, b} /\ a < b
Same(a, b) == NotANumber \notin {a, b} /\ a = b
AtMost(a, b) == Less(a, b) \/ Same(a, b)
Minus(a, b) == IF NotANumber \in {a, b} THEN NotANumber ELSE a - b
Plus(a, b) == IF NotANumber \in {a, b} THEN NotANumber ELSE a + b

\* MUTANT: only one side is compared.
FloatEquals_Above(expected, actual, tol) == AtMost(actual, Plus(expected, tol))

FloatEquals(expected, actual, tol) ==
    AtMost(Minus(expected, tol), actual) /\ AtMost(actual, Plus(expected, tol))

\* Whether the template returns before it fails.
Passes(comparison, e, a, tol) ==
    CASE comparison = "Equals" -> Same(a, e)
      [] comparison = "NotEquals" -> ~Same(a, e)
      [] comparison = "FloatEquals" -> FloatEquals(e, a, tol)
      [] comparison = "LessThan" -> Less(e, a)
      [] comparison = "LessEqual" -> AtMost(e, a)
      [] comparison = "GreaterThan" -> Less(a, e)
      [] comparison = "GreaterEqual" -> AtMost(a, e)

Expect(passes, holds) ==
    /\ ending = "running" /\ "TESTING" \in build
    /\ failed' = (failed \/ ~passes)
    /\ missed' = (missed \/ ~holds)
    /\ UNCHANGED <<build, ending>>

\* The distance of two numbers tells how they compare.
Distance(e, a) == IF NotANumber \in {e, a} THEN NotANumber ELSE a - e

Holds(comparison, e, a, tol) ==
    LET d == Distance(e, a) IN
    CASE comparison = "Equals" -> d = 0
      [] comparison = "NotEquals" -> d # 0
      [] comparison = "FloatEquals" -> NotANumber \notin {d, tol} /\ d \in -tol .. tol
      [] comparison = "LessThan" -> d # NotANumber /\ d > 0
      [] comparison = "LessEqual" -> d # NotANumber /\ d >= 0
      [] comparison = "GreaterThan" -> d # NotANumber /\ d < 0
      [] comparison = "GreaterEqual" -> d # NotANumber /\ d <= 0

EXPECT(holds) == Expect(holds, holds)
FAIL == Expect(FALSE, FALSE)
ExpectPair(comparison, e, a, tol) ==
    Expect(Passes(comparison, e, a, tol), Holds(comparison, e, a, tol))

\* EXPECT_NOTNULL and EXPECT_NULLPTR.
ExpectPointer(p, null) == Expect((p = nullptr) = null, (p = nullptr) = null)

\* EXPECT_STREQ: strcmp comes before the test for nullptr, and a program that
\* calls it with one is undefined from there.  EXPECT_SUBSTRING and its
\* opposite call strstr and have no test.
ExpectStrings(e, a, opposite) ==
    IF nullptr \in {e, a}
    THEN /\ ending = "running" /\ "TESTING" \in build
         /\ ending' = "undefined"
         /\ UNCHANGED <<build, failed, missed>>
    ELSE Expect((e = a) # opposite, (e = a) # opposite)

ChecksNext ==
    \/ \E holds \in BOOLEAN : ASSERT(holds) \/ RELEASE_ASSERT(holds) \/ EXPECT(holds)
    \/ FATAL \/ FAIL
    \/ \E comparison \in Comparisons, e, a, tol \in Operands :
          ExpectPair(comparison, e, a, tol)
    \/ \E p \in Texts, null \in BOOLEAN : ExpectPointer(p, null)
    \/ \E e, a \in Texts, opposite \in BOOLEAN : ExpectStrings(e, a, opposite)

ChecksSpec == ChecksInit /\ [][ChecksNext]_checks

-----------------------------------------------------------------------------
(* Properties.                                                             *)

\* A test that never compares nullptr as a string is said to have failed
\* exactly if one of its expectations did not hold, NaN and tolerances
\* included, however many came after it (assert.h:298-301) and also where an
\* assertion ends it.  A nullptr that the code means to report (assert.h:143)
\* is given to strcmp first (142); of such a test nothing is claimed.
FailuresAreReported == ending # "undefined" => (failed <=> missed)

=============================================================================
