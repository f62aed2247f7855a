------------------------------ MODULE MCLogins ------------------------------
EXTENDS Logins, TLC
CONSTANTS t1, t2, e1, v2, m1, m2

TestTenantOf == e1 :> t1 @@ v2 :> t2
TestKindOf == e1 :> "employee" @@ v2 :> "vendor_contact"

Off1 == [row |-> "live", app |-> FALSE]
On1 == [row |-> "live", app |-> TRUE]
U(m) == NewUser(m)
Be == NewBinding(1, t1, e1)
Bv == NewBinding(1, t2, v2)
State(e, v, us, bs) == [entity |-> e1 :> e @@ v2 :> v, user |-> us, binding |-> bs]

\* Nothing yet; an employee with a login; the same person also the vendor
\* contact of another tenant; each with a login of their own.
TestStart ==
  {State([Off1 EXCEPT !.row = "absent"], Off1, <<>>, <<>>),
   State(On1, Off1, <<U(m1)>>, <<Be>>),
   State(On1, On1, <<U(m1)>>, <<Be, Bv>>),
   State(On1, On1, <<U(m1), U(m2)>>, <<Be, [Bv EXCEPT !.user = 2]>>)}
=============================================================================
