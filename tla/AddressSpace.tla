---------------------------- MODULE AddressSpace ----------------------------
(***************************************************************************)
(* What an address space promises its user: a partial function from        *)
(* virtual pages to physical pages and permissions, which a call changes   *)
(* only for the pages it names.                                            *)
(***************************************************************************)
EXTENDS Integers

CONSTANTS
  Spaces,   \* the address spaces
  Pages,    \* number of virtual pages
  MaxLen,   \* the longest range of a call, in pages
  None      \* no translation

VARIABLE xlate   \* space -> page -> translation

At(va, k) == (va + k) % Pages

Named(va, n) == {At(va, k) : k \in 0 .. (n - 1)}

AInit == xlate = [v \in Spaces |-> [p \in 0 .. (Pages - 1) |-> None]]

OnlyChanges(v, ps) ==
  \A w \in Spaces, p \in 0 .. (Pages - 1) :
    w # v \/ p \notin ps => xlate'[w][p] = xlate[w][p]

\* Some pages from va on are mapped to consecutive physical pages with the same
\* permissions.  All of them were free: a translation is never replaced.  A
\* call that fails half-way has mapped fewer pages than asked for.
AMap(v, va, n) ==
  /\ \A p \in Named(va, n) : xlate[v][p] = None /\ xlate'[v][p] # None
  /\ \A k \in 1 .. (n - 1) :
       xlate'[v][At(va, k)] = [xlate'[v][va] EXCEPT !.ppn = @ + k]
  /\ OnlyChanges(v, Named(va, n))

AUnmap(v, va, n) ==
  /\ \A p \in Named(va, n) : xlate'[v][p] = None
  /\ OnlyChanges(v, Named(va, n))

ANext ==
  \E v \in Spaces, va \in 0 .. (Pages - 1), n \in 1 .. MaxLen : AMap(v, va, n) \/ AUnmap(v, va, n)

ASpec == AInit /\ [][ANext]_xlate
=============================================================================
