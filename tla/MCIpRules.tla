----------------------------- MODULE MCIpRules -----------------------------
(* Texts with ranges at both ends of the address space, nested and         *)
(* adjacent ones; rules that share a program, a direction or a text.       *)
EXTENDS IpRules

CONSTANTS a, b, bad, one, low, wide, six, any

MCSpec4 == [t \in {one, low, wide, six, any} |->
              CASE t = one -> {<<1, 1>>}
                [] t = low -> {<<0, 0>>, <<2, 3>>, <<2, 2>>}
                [] t = wide -> {<<1, 4>>}
                [] OTHER -> {}]
MCSpec6 == [t \in {one, low, wide, six, any} |-> IF t = six THEN {<<0, 1>>} ELSE {}]

R(e, act, d, t, ports, p) ==
    [exe |-> e, action |-> act, dir |-> d, ip |-> t, ports |-> ports, proto |-> p]

Few == {R(a, "allow", "out", one, {}, "any"),
        R(a, "allow", "in", six, {<<1, 3>>}, "any"),
        R(a, "block", "out", low, {<<3, 3>>}, "any"),
        R(b, "allow", "out", wide, {}, "any")}

Many == Few \cup
        {R(a, "allow", "out", one, {<<2, 2>>}, "any"),
         R(a, "allow", "out", low, {<<1, 1>>, <<2, 2>>}, "tcp"),
         R(b, "block", "both", any, {}, "udp"),
         R(bad, "block", "out", one, {}, "tcp")}

MCOffers == {[rules |-> Many, refusals |-> 0], [rules |-> Few, refusals |-> 1]}
=============================================================================
