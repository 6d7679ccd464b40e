------------------------- MODULE MCTranslationCache -------------------------
EXTENDS TranslationCache, TLC, Sequences

I(k, n) == [kind |-> k, size |-> n]

MCInstr == {I("plain", 1), I("mem", 2), I("jump", 1), I("fence_i", 1),
            I("sfence_vma", 1), I("csr", 1), I("ret", 1), I("ecall", 1), I("wfi", 1)}

P1 == I("plain", 1)
M == I("mem", 2)
J == I("jump", 1)

\* Straight-line code longer than the cache, in both spaces.
Straight == [p \in PC |-> P1]
\* One space holds code that differs from the other's at the same addresses.
KernelA == <<M, J, I("ret", 1), I("fence_i", 1)>>
KernelB == <<P1, M, I("csr", 1), Unmapped>>
UserA == <<P1, I("sfence_vma", 1), I("ecall", 1), Unmapped>>
UserB == <<P1, I("wfi", 1), P1, Unknown>>

At0(seq) == [p \in PC |-> seq[p + 1]]

MCPrograms ==
    { (0 :> At0(KernelA)) @@ (1 :> At0(UserA)),
      (0 :> At0(KernelB)) @@ (1 :> At0(UserB)),
      (0 :> Straight) @@ (1 :> At0(UserA)) }

\* The user's straight-line code runs up to the end of a page, the next page is
\* not mapped, and the handler is in the same address space.
PageEnd == { (0 :> [p \in PC |-> I("ret", 1)])
             @@ (1 :> At0(<<P1, Unmapped, J, J>>)) }
=============================================================================
