----------------------------- MODULE MCRegistry -----------------------------
(* An instance of Registry for TLC: orders, their items and the units of an *)
(* item, with the mistakes a program may make in declaring them; and of     *)
(* Client: use cases on accounts, some strict, and composites over stock.   *)
EXTENDS Client

MCPlaceholders == {"o", "i"}
\* One value is a prefix of another, and one has a separator in it.
MCValues == {<<"1">>, <<"1", "1">>, <<"1", ":", "1">>}

Builder(template, fields) == [template |-> template, fields |-> fields, view |-> TRUE]
Order == Builder(<<"order", ":", "o">>, {"o"})
Item == Builder(Order.template \o <<":", "item", ":", "i">>, {"o", "i"})
Unit == Builder(Item.template \o <<":", "unit">>, {"o", "i"})

Def(id, kind, to, builder) ==
    [id |-> id, kind |-> kind, ref |-> [to |-> to, pad |-> FALSE], mode |-> "standard",
     fenced |-> FALSE, overlap |-> "reject", builder |-> builder]

Orders == {Def("order", "parent", "none", b) : b \in {Order, [Order EXCEPT !.view = FALSE],
                                                      [Order EXCEPT !.fields = {}]}}
          \cup {Def("order", k, to, Order) : k \in {"parent", "child"}, to \in {"item", "unit"}}
          \cup {[Def("order", "parent", "none", Order) EXCEPT !.mode = "strict", !.fenced = f] :
                   f \in BOOLEAN}
Items == {Def("item", k, "order", b) : k \in {"parent", "child"},
             b \in {Item, Order, [Item EXCEPT !.fields = {"i"}],
                    Builder(Order.template \o <<"item", ":", "i">>, {"o", "i"})}}
         \cup {Def("item", k, to, Item) : k \in {"parent", "child"}, to \in {"none", "unit"}}
         \cup {[Def("item", "child", "order", Item) EXCEPT !.ref.pad = TRUE],
               [Def("item", "child", "order", Item) EXCEPT !.overlap = "escalate"]}
Units == {Def("unit", k, to, b) : k \in {"parent", "child"}, to \in {"none", "order", "item"},
             b \in {Unit, Order}}

MCDefinitions == Orders \cup Items \cup Units
MCComposites == {[id |-> id, members |-> <<"order", "unit">>, supported |-> TRUE, max |-> 2] :
                    id \in {"basket", "item"}}

Account == [name |-> "account", strict |-> FALSE]
Audited == [name |-> "account", strict |-> TRUE]
Stock == [name |-> "stock", strict |-> FALSE]

UseCase(name, kind, ref, idempotent, ttl) ==
    [name |-> name, kind |-> kind, ref |-> ref, members |-> <<>>, idempotent |-> idempotent,
     ttl |-> ttl]
Composite(name, members, ttl) ==
    [UseCase(name, "run", NoDef, FALSE, ttl) EXCEPT !.members = members]
Member(ref, failIfHeld) == [def |-> ref.name, strict |-> ref.strict, failIfHeld |-> failIfHeld]

Transfer == Composite("transfer", <<Member(Account, FALSE), Member(Stock, FALSE)>>, 0)
Recount == Composite("recount", <<Member(Stock, TRUE), Member(Account, FALSE)>>, 0)

MCUseCases == {UseCase("debit", "run", Account, FALSE, 0), UseCase("close", "run", Audited, FALSE, 0),
               UseCase("settle", "claim", Account, TRUE, 1), UseCase("notify", "claim", Account, FALSE, 0),
               UseCase("post", "claim", Audited, TRUE, 0), UseCase("log", "claim", Audited, FALSE, 0),
               UseCase("freeze", "hold", Account, FALSE, 2), UseCase("reserve", "hold", Stock, FALSE, 0),
               Transfer, Recount, Composite("review", <<Member(Audited, FALSE)>>, 0),
               Composite("nothing", <<>>, 0)}
CompositeUseCases == {Transfer, Recount, UseCase("reserve", "hold", Stock, FALSE, 0)}
=============================================================================
