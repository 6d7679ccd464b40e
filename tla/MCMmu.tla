------------------------------- MODULE MCMmu -------------------------------
EXTENDS Mmu, TLC

Leaf(p) == [valid |-> TRUE, leaf |-> TRUE, ppn |-> p]
Table(p) == [valid |-> TRUE, leaf |-> FALSE, ppn |-> p]
Zero == [valid |-> FALSE, leaf |-> FALSE, ppn |-> <<0, 0>>]

\* Four frames: a device, ram, ram, nothing.  Ram starts and ends inside a 4M
\* page, so a 4M page that starts in ram has nothing behind its first frame.
MCRegion == [f \in (0 .. 1) \X (0 .. 1) |->
                IF f[1] # f[2] THEN "ram" ELSE IF f[1] = 0 THEN "io" ELSE "none"]

\* Page <<0, 0>> has the index of its own 4M page; the other two share one.
MCPages == {<<0, 0>>, <<1, 0>>, <<1, 1>>}

\* Entries that map, as a 4M page or as a 4K page, the device or ram, ram and
\* what is behind it or nothing; that lead to a table in ram and to one that
\* cannot be read.
MCWords == {Zero, Leaf(<<0, 1>>), Leaf(<<1, 1>>), Table(<<0, 1>>), Table(<<0, 0>>)}

MCSatpValues == {[mode |-> FALSE, ppn |-> <<0, 0>>], [mode |-> TRUE, ppn |-> <<1, 0>>],
                 [mode |-> TRUE, ppn |-> <<0, 0>>]}

\* A root table that maps itself and has a second table, which maps one page to
\* the device and one to nothing.
MCImage == (<<1, 0>> :> (0 :> Leaf(<<1, 0>>) @@ 1 :> Table(<<0, 1>>)))
        @@ (<<0, 1>> :> (0 :> Leaf(<<0, 0>>) @@ 1 :> Leaf(<<1, 1>>)))
=============================================================================
