-------------------------- MODULE BuildConfiguration --------------------------
(***************************************************************************)
(* What src/dart/platform/globals.h makes of the macros the compiler and   *)
(* the build define: the host, the target, whether a simulator runs the    *)
(* code of the target, the size of a word and which assertions are on.     *)
(* The preprocessor goes through the file once; a step here is one chain   *)
(* of #if, #elif and #else, and "error" is an #error.                      *)
(***************************************************************************)
EXTENDS Binary, Sequences, FiniteSets

Architectures == {"ARM", "ARM64", "IA32", "X64"}
Systems == {"ANDROID", "FUCHSIA", "LINUX", "MACOS", "WINDOWS"}

\* HOST_ARCH_..., TARGET_ARCH_..., HOST_OS_... and TARGET_OS_....
Host(arch) == <<"HOST_ARCH", arch>>
Target(arch) == <<"TARGET_ARCH", arch>>
HostOS(os) == <<"HOST_OS", os>>
TargetOS(os) == <<"TARGET_OS", os>>
Plain(name) == <<"PLAIN", name>>
AnyOf(name, S, D) == \E x \in S : <<name, x>> \in D

\* The first pair of a chain whose condition holds tells what is defined.
Chain(D, pairs) ==
    LET Taken == {i \in DOMAIN pairs : pairs[i][1]}
    IN D \cup IF Taken = {} THEN {Plain("error")}
              ELSE pairs[CHOOSE i \in Taken : \A j \in Taken : i <= j][2]

\* DEBUG and NDEBUG.
DefineDebug(D) ==
    LET Debug == Plain("DEBUG") \in D
    IN D \cup IF Plain("GOOGLE3") \in D
              THEN IF Debug \/ Plain("NDEBUG") \in D THEN {} ELSE {Plain("DEBUG")}
              ELSE IF Debug THEN {} ELSE {Plain("NDEBUG")}

HostSystems(D) ==
    LET Is(name) == Plain(name) \in D IN
    << <<Is("__ANDROID__"), {HostOS("ANDROID")}>>,
       <<Is("__linux__") \/ Is("__FreeBSD__"), {HostOS("LINUX")}>>,
       <<Is("__APPLE__"), {HostOS("MACOS")} \cup
            IF Is("TARGET_OS_IPHONE") THEN {HostOS("IOS")} ELSE {}>>,
       <<Is("_WIN32"), {HostOS("WINDOWS")}>>,
       <<Is("__Fuchsia__"), {HostOS("FUCHSIA")}>>,
       <<HostOS("FUCHSIA") \in D, {}>> >>

\* MUTANT: each #elif is an #if of its own, and Android is a Linux too.
DefineHostOS_NoElse(D) ==
    LET pairs == HostSystems(D)
    IN D \cup UNION {pairs[i][2] : i \in {j \in DOMAIN pairs : pairs[j][1]}}

DefineHostOS(D) == Chain(D, HostSystems(D))

DefineHostArch(D) ==
    LET Is(name) == Plain(name) \in D IN
    Chain(D, << <<Is("_M_X64") \/ Is("__x86_64__"), {Host("X64"), Plain("ARCH_IS_64_BIT")}>>,
                <<Is("_M_IX86") \/ Is("__i386__"), {Host("IA32"), Plain("ARCH_IS_32_BIT")}>>,
                <<Is("__ARMEL__"), {Host("ARM"), Plain("ARCH_IS_32_BIT")}>>,
                <<Is("__aarch64__"), {Host("ARM64"), Plain("ARCH_IS_64_BIT")}>> >>)

\* The target is the host where the build names none.
DefineTargetArch(D) ==
    IF AnyOf("TARGET_ARCH", Architectures, D) THEN D
    ELSE Chain(D, [i \in 1 .. 4 |->
                     LET arch == <<"ARM", "X64", "IA32", "ARM64">>[i]
                     IN <<Host(arch) \in D, {Target(arch)}>>])

DefineTargetBits(D) ==
    Chain(D, << <<AnyOf("TARGET_ARCH", {"IA32", "ARM"}, D), {Plain("TARGET_IS_32_BIT")}>>,
                <<AnyOf("TARGET_ARCH", {"X64", "ARM64"}, D), {Plain("TARGET_IS_64_BIT")}>> >>)

\* MUTANT: 32-bit targets are accepted on every X64 host.
VerifyTarget_AnyX64(D) ==
    LET Mismatch(bits) == Plain(bits) \notin D /\ Plain("FFI_UNIT_TESTS") \notin D IN
    D \cup IF AnyOf("TARGET_ARCH", {"X64", "ARM64"}, D)
           THEN IF Mismatch("ARCH_IS_64_BIT") THEN {Plain("error")} ELSE {}
           ELSE IF Host("X64") \in D THEN {}
           ELSE IF Mismatch("ARCH_IS_32_BIT") THEN {Plain("error")} ELSE {}

VerifyTarget(D) ==
    LET Mismatch(bits) == Plain(bits) \notin D /\ Plain("FFI_UNIT_TESTS") \notin D IN
    D \cup IF AnyOf("TARGET_ARCH", {"X64", "ARM64"}, D)
           THEN IF Mismatch("ARCH_IS_64_BIT") THEN {Plain("error")} ELSE {}
           ELSE IF Host("X64") \in D /\ Target("ARM") \in D
                THEN {Plain("IS_SIMARM_X64")}
           ELSE IF Mismatch("ARCH_IS_32_BIT") THEN {Plain("error")} ELSE {}

DefineSimulator(D) ==
    LET IfForeign(arch, S) == IF Host(arch) \in D THEN {} ELSE S
        Using == IF Plain("IS_SIMARM_X64") \in D THEN {} ELSE {Plain("USING_SIMULATOR")}
    IN Chain(D, << <<AnyOf("TARGET_ARCH", {"IA32", "X64"}, D), {}>>,
                   <<Target("ARM") \in D,
                     IfForeign("ARM", {Plain("TARGET_HOST_MISMATCH")} \cup Using)>>,
                   <<Target("ARM64") \in D,
                     IfForeign("ARM64", {Plain("USING_SIMULATOR")})>> >>)

DefineTargetOS(D) ==
    IF AnyOf("TARGET_OS", Systems \cup {"IOS"}, D) THEN D
    ELSE Chain(D, << <<HostOS("ANDROID") \in D, {TargetOS("ANDROID")}>>,
                     <<HostOS("FUCHSIA") \in D, {TargetOS("FUCHSIA")}>>,
                     <<HostOS("IOS") \in D, {TargetOS("MACOS"), TargetOS("IOS")}>>,
                     <<HostOS("LINUX") \in D, {TargetOS("LINUX")}>>,
                     <<HostOS("MACOS") \in D, {TargetOS("MACOS")}>>,
                     <<HostOS("WINDOWS") \in D, {TargetOS("WINDOWS")}>> >>)

DefineDualMapping(D) ==
    IF Plain("DART_PRECOMPILED_RUNTIME") \notin D
       /\ ((TargetOS("LINUX") \in D /\ Target("X64") \in D) \/ TargetOS("FUCHSIA") \in D)
    THEN D \cup {Plain("DUAL_MAPPING_SUPPORTED")} ELSE D

\* kWordSizeLog2 and what is made of it; bits of a Smi (vm/globals.h).
kWordSizeLog2(D) == IF Plain("ARCH_IS_32_BIT") \in D THEN 2 ELSE 3
kBitsPerWordLog2(D) == kWordSizeLog2(D) + 3
kBitsPerWord(D) == Power[kBitsPerWordLog2(D)]
kSmiBits(D) ==
    IF Plain("DART_COMPRESSED_POINTERS") \in D THEN 30 ELSE kBitsPerWord(D) - 2

Preprocess(D) ==
    DefineDualMapping(DefineTargetOS(DefineSimulator(VerifyTarget(DefineTargetBits(
        DefineTargetArch(DefineHostArch(DefineHostOS(DefineDebug(D)))))))))

-----------------------------------------------------------------------------
(* The builds: what a compiler defines for a system and an architecture,   *)
(* and what a build may add.                                               *)

VARIABLE macros   \* what is defined after globals.h

Compilers ==
    {{"__ANDROID__", "__linux__"}, {"__linux__"}, {"__APPLE__"},
     {"__APPLE__", "TARGET_OS_IPHONE"}, {"_WIN32"}, {"__Fuchsia__"}}
Processors == {"_M_X64", "__x86_64__", "_M_IX86", "__ARMEL__", "__aarch64__"}
Options == {"FFI_UNIT_TESTS", "DART_PRECOMPILED_RUNTIME", "GOOGLE3"}

MacrosInit ==
    \E os \in Compilers, cpu \in Processors, options \in SUBSET Options,
       debug \in {{}, {"DEBUG"}, {"NDEBUG"}},
       target \in {{}} \cup {{Target(arch)} : arch \in Architectures},
       system \in {{}, {TargetOS("LINUX")}, {TargetOS("FUCHSIA")}} :
        macros = Preprocess({Plain(x) : x \in os \cup {cpu} \cup options \cup debug}
                              \cup target \cup system)
MacrosNext == UNCHANGED macros

-----------------------------------------------------------------------------
(* Properties.                                                             *)

Count(name, S) == Cardinality({x \in S : <<name, x>> \in macros})

\* The first chains leave exactly one host system, one architecture of the
\* host and one of the target, with the sizes of their words, and one of
\* DEBUG and NDEBUG: the code selected by them is there once.
OneOfEach ==
    Plain("error") \notin macros =>
        /\ Count("HOST_OS", Systems) = 1 /\ Count("TARGET_OS", Systems) = 1
        /\ Count("HOST_ARCH", Architectures) = 1
        /\ Count("TARGET_ARCH", Architectures) = 1
        /\ Count("PLAIN", {"ARCH_IS_32_BIT", "ARCH_IS_64_BIT"}) = 1
        /\ Count("PLAIN", {"TARGET_IS_32_BIT", "TARGET_IS_64_BIT"}) = 1
        /\ Count("PLAIN", {"DEBUG", "NDEBUG"}) = 1

\* "we cannot have a 64 bit Dart VM generating 32 bit code or vice-versa"
\* (globals.h:341-342), but for simarm_x64 and the tests of FFI.  That is the
\* only mismatch of word sizes, not of architectures as 349-350 says: five
\* pairs of a host and another target are accepted.  Code for a foreign ARM or
\* ARM64 is simulated or only compiled; code for X64 on ARM64 and for IA32 on
\* ARM is neither (341-365).  And a Smi and its tag fit in a word.
MismatchesAreThese ==
    Plain("error") \notin macros =>
        /\ \/ (Plain("ARCH_IS_64_BIT") \in macros) <=> (Plain("TARGET_IS_64_BIT") \in macros)
           \/ Plain("IS_SIMARM_X64") \in macros \/ Plain("FFI_UNIT_TESTS") \in macros
        /\ \A host, target \in Architectures :
             Host(host) \in macros /\ Target(target) \in macros =>
                 /\ Count("PLAIN", {"USING_SIMULATOR", "IS_SIMARM_X64"}) =
                      IF target \in {"ARM", "ARM64"} \ {host} THEN 1 ELSE 0
                 /\ \/ host = target
                    \/ Plain("FFI_UNIT_TESTS") \in macros
                    \/ <<host, target>> \in {<<"X64", "ARM">>, <<"IA32", "ARM">>,
                         <<"X64", "ARM64">>, <<"ARM64", "X64">>, <<"ARM", "IA32">>}
        /\ kSmiBits(macros) + 2 <= kBitsPerWord(macros)

=============================================================================
