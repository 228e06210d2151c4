------------------------------ MODULE NetMask ------------------------------
(***************************************************************************)
(* The net mask arithmetic of librip/rip_common.c, along the way of one    *)
(* network: a router is configured with a prefix length and makes a mask   *)
(* of it (prefix_len_to_subnet); the mask, in network order, reaches a     *)
(* neighbour, which checks it (is_net_mask_valid) and makes a prefix       *)
(* length of it for its kernel (get_prefix_len).  Other routers may send   *)
(* any mask.  Words have four octets of OctetBits bits, 8 in the code.     *)
(***************************************************************************)
EXTENDS PowersOfTwo

CONSTANT OctetBits

ASSUME OctetAssumption == OctetBits \in Nat \ {0}

W == 4 * OctetBits
Word == 0 .. Pow2[W] - 1
Ones == Pow2[W] - 1
Not(x) == Ones - x

VARIABLES
    stage,   \* configured, sent, accepted, refused
    prefix,  \* the configured prefix length; -1 for the mask of another router
    mask,    \* subnet_mask, in network order
    kernel   \* the prefix length of the kernel route; -1 for none

maskVars == <<stage, prefix, mask, kernel>>

\* The octets in the opposite order: ntohl and htonl on this machine.
Swap(x) ==
    LET octet(i) == (x \div Pow2[i * OctetBits]) % Pow2[OctetBits]
    IN  octet(3) + octet(2) * Pow2[OctetBits] + octet(1) * Pow2[2 * OctetBits]
          + octet(0) * Pow2[3 * OctetBits]

(***************************************************************************)
(* __builtin_clz and __builtin_ctz are undefined for 0, and so is a shift  *)
(* by the whole width: these are the outcomes the instructions can have.   *)
(***************************************************************************)
Clz(x) == IF x = 0 THEN {W - 1, W}
          ELSE {n \in 0 .. W - 1 : Pow2[W - 1 - n] <= x /\ x < Pow2[W - n]}
Ctz(x) == IF x = 0 THEN {0, W}
          ELSE {n \in 0 .. W - 1 : x % Pow2[n] = 0 /\ x % Pow2[n + 1] # 0}
ShiftLeft(x, n) == IF n >= W THEN {0, x} ELSE {(x * Pow2[n]) % Pow2[W]}

\* The masks of a prefix length; none for one that is refused.
prefix_len_to_subnet(len) ==
    IF len > W THEN {} ELSE {Swap(m) : m \in ShiftLeft(Ones, W - len)}

get_prefix_len_host_order(m) == Clz(Not(m))
get_prefix_len(m) == Clz(Not(Swap(m)))

is_net_mask_valid_unswapped(m) ==
    /\ m # 0 /\ m # Ones
    /\ \E zeros \in Ctz(m), ones \in Clz(Not(m)) : ones + zeros = W
is_net_mask_valid(m) ==
    LET net_mask == Swap(m)
    IN  /\ net_mask # 0 /\ net_mask # Ones
        /\ \E zeros \in Ctz(net_mask), ones \in Clz(Not(net_mask)) : ones + zeros = W

----------------------------------------------------------------------------
MaskInit ==
    /\ prefix \in -1 .. W + 1
    /\ mask = 0
    /\ kernel = -1
    /\ stage = "configured"

\* A network of the configuration, or an entry of some other router.
Advertise ==
    /\ stage = "configured"
    /\ \/ /\ prefix >= 0
          /\ mask' \in prefix_len_to_subnet(prefix)
       \/ /\ prefix = -1
          /\ mask' \in Word
    /\ stage' = "sent"
    /\ UNCHANGED <<prefix, kernel>>

\* The daemon does not start with such a prefix.
Reject ==
    /\ stage = "configured"
    /\ prefix >= 0
    /\ prefix_len_to_subnet(prefix) = {}
    /\ stage' = "refused"
    /\ UNCHANGED <<prefix, mask, kernel>>

is_entry_valid ==
    /\ stage = "sent"
    /\ IF is_net_mask_valid(mask)
       THEN stage' = "accepted" /\ kernel' \in get_prefix_len(mask)
       ELSE stage' = "refused" /\ UNCHANGED kernel
    /\ UNCHANGED <<prefix, mask>>

\* The entry has been installed, or ignored.
Done == stage \in {"accepted", "refused"} /\ UNCHANGED maskVars

MaskNext == Advertise \/ Reject \/ is_entry_valid \/ Done

MaskSpec == MaskInit /\ [][MaskNext]_maskVars

----------------------------------------------------------------------------
\* The octets of a prefix mask, by the definition of a prefix.
PrefixMask(len) == Ones - (Pow2[W - len] - 1)

(***************************************************************************)
(* The neighbour's kernel route has the prefix length the first router was *)
(* configured with, although prefix_len_to_subnet and get_prefix_len meet  *)
(* undefined shifts and counts at both ends of their range.                *)
(***************************************************************************)
InstalledAsConfigured == stage = "accepted" /\ prefix >= 0 => kernel = prefix

(***************************************************************************)
(* Whatever mask arrives, it is accepted exactly when it is the mask of a  *)
(* prefix that is neither empty nor a single host, and then the kernel     *)
(* gets that prefix: get_prefix_len is never asked for an undefined count. *)
(***************************************************************************)
AcceptsExactlyPrefixes ==
    /\ stage = "accepted" => kernel \in 1 .. W - 1 /\ Swap(mask) = PrefixMask(kernel)
    /\ stage = "refused" /\ mask # 0 => \A len \in 1 .. W - 1 : Swap(mask) # PrefixMask(len)
=============================================================================
