---------------------------- MODULE CallChains ------------------------------
(***************************************************************************)
(* The list of call-chains that a window shows (common/os/sym.c).          *)
(*                                                                         *)
(* The chains are nodes of a doubly linked list.  heap is the sequence of  *)
(* all that were allocated, a pointer is an index of it, Null is NULL; a   *)
(* list has its head, its tail and its length.  An entry of a chain is     *)
(* the range of addresses that counts as the same caller.                  *)
(***************************************************************************)
EXTENDS Integers, Sequences, FiniteSets

Null == 0

NoList == [head |-> Null, tail |-> Null, num |-> 0]

Chain(entries) ==
  [entries |-> entries, naccess |-> 0, prev |-> Null, next |-> Null]

\* The chains that are reached from c on; link is where each one leads.
Links(c, link) ==
  LET at[n \in 0 .. Len(link)] ==
        IF n = 0 THEN c ELSE IF at[n - 1] = Null THEN Null ELSE link[at[n - 1]]
  IN [k \in 1 .. Cardinality({n \in 0 .. Len(link) - 1 : at[n] # Null}) |->
       at[k - 1]]
Nexts(heap) == [c \in DOMAIN heap |-> heap[c].next]
Prevs(heap) == [c \in DOMAIN heap |-> heap[c].prev]
Chains(heap, list) == Links(list.head, Nexts(heap))

\* chainlist_attach_tail, which leaves <<heap, list>>.
AttachTail(heap, list, c) ==
  LET linked == [heap EXCEPT ![c].next = Null, ![c].prev = list.tail]
  IN IF list.tail # Null
     THEN <<[linked EXCEPT ![list.tail].next = c],
            [list EXCEPT !.tail = c, !.num = @ + 1]>>
     ELSE <<linked, [list EXCEPT !.head = c, !.tail = c, !.num = @ + 1]>>

\* Fault: the chain behind keeps the way back to the one that is detached.
DetachHalf(heap, list, c) ==
  LET p == heap[c].prev
      n == heap[c].next
      h1 == IF p = Null THEN heap ELSE [heap EXCEPT ![p].next = n]
  IN <<[h1 EXCEPT ![c].prev = Null, ![c].next = Null],
       [head |-> IF p = Null THEN n ELSE list.head,
        tail |-> IF n = Null THEN p ELSE list.tail,
        num |-> list.num - 1]>>
\* chainlist_detach
Detach(heap, list, c) ==
  LET p == heap[c].prev
      n == heap[c].next
      h1 == IF p = Null THEN heap ELSE [heap EXCEPT ![p].next = n]
      h2 == IF n = Null THEN h1 ELSE [h1 EXCEPT ![n].prev = p]
  IN <<[h2 EXCEPT ![c].prev = Null, ![c].next = Null],
       [head |-> IF p = Null THEN n ELSE list.head,
        tail |-> IF n = Null THEN p ELSE list.tail,
        num |-> list.num - 1]>>

-----------------------------------------------------------------------------

IpHit(ip, entry) == entry.addr <= ip /\ ip < entry.addr + entry.size

\* ips_exist: a sample belongs to a chain that begins with its callers.
IpsExist(chain, ips) ==
  /\ Len(ips) <= Len(chain.entries)
  /\ \A i \in DOMAIN ips : IpHit(ips[i], chain.entries[i])

\* chain_find: the first of them, or Null.
ChainFind(heap, list, ips) ==
  LET order == Chains(heap, list)
      hit(i) == IpsExist(heap[order[i]], ips)
  IN IF \A i \in DOMAIN order : ~hit(i) THEN Null
     ELSE order[CHOOSE i \in DOMAIN order :
                  hit(i) /\ \A j \in DOMAIN order : j < i => ~hit(j)]

\* sym_callchain_add: entries is what chain_alloc makes of the sample.
ChainAdd(heap, list, ips, entries) ==
  LET c == ChainFind(heap, list, ips) IN
  IF c # Null THEN <<[heap EXCEPT ![c].naccess = @ + 1], list>>
  ELSE AttachTail(Append(heap, Chain(entries)), list, Len(heap) + 1)

\* max_access_chain: the first of those with most accesses.
MaxAccess(heap, list) ==
  LET order == Chains(heap, list)
      n(i) == heap[order[i]].naccess
  IN order[CHOOSE i \in DOMAIN order :
             \A j \in DOMAIN order : n(j) <= n(i) /\ (j < i => n(j) < n(i))]

\* sym_callchain_resort moves the chains to a new list, one by one.
Resort(heap, list) ==
  LET move[n \in 0 .. list.num] ==
        IF n = 0 THEN <<heap, list, NoList>>
        ELSE LET s == move[n - 1]
                 c == MaxAccess(s[1], s[2])
                 d == Detach(s[1], s[2], c)
                 a == AttachTail(d[1], s[3], c)
             IN <<a[1], d[2], a[2]>>
      moved == move[list.num]
  IN <<moved[1], moved[3]>>

=============================================================================
