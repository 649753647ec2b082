----------------------------- MODULE MCTraceStore -----------------------------
(* Two traces, the first with spans of two services, with a chain of parents *)
(* longer than a tree may be deep and a second export of span b that makes   *)
(* it a circle; the second with a parent that never arrives, a span that     *)
(* ends past the largest time and nothing between its spans.                 *)
EXTENDS TraceSearch

MCServices == {<<"web">>, <<"db">>, <<"unknown">>}

MCTextMatches == [p \in {<<"g.*">>} |-> {<<"get">>}]

Numeral(n) == [type |-> "String", text |-> <<"200">>, num |-> n, parses |-> TRUE]

Attr(key, value) == [key |-> key, value |-> value]

OfService(service) == Attr(<<"resource", "service", "name">>, StringValue(service))

Shape(trace, id, parent, ts, duration, service, name, status, attrs) ==
    [trace |-> trace, id |-> id, parent |-> parent, ts |-> ts, duration |-> duration,
     service |-> service, name |-> name, status |-> status, kind |-> <<"server">>,
     attrs |-> attrs, events |-> << >>]

MCSpanShapes ==
    {Shape(1, "a", NoParent, 8, 4, <<"web">>, <<"get">>, <<"ok">>,
           <<OfService(<<"web">>), Attr(<<"scope", "name">>, StringValue(<<"lib">>))>>),
     Shape(1, "b", "a", 12, -4, <<"db">>, <<"put">>, <<"ok">>,
           <<OfService(<<"db">>), Attr(<<"span", "code">>, Numeral(200))>>),
     Shape(1, "b", "c", 12, 8, <<"db">>, <<"get">>, <<"ok">>, <<OfService(<<"db">>)>>),
     Shape(1, "c", "b", 12, 0, <<"web">>, <<"put">>, <<"error">>, <<OfService(<<"web">>)>>),
     Shape(2, "a", "x", 16, 8, <<"unknown">>, <<"get">>, <<"error">>,
           <<Attr(<<"span", "code">>, NumberValue(200))>>),
     Shape(2, "b", "b", 8, 0, <<"web">>, <<"put">>, <<"error">>, <<OfService(<<"web">>)>>)}

Conditions ==
    {Condition("Name", "Eq", StringValue(<<"get">>)), Condition("Name", "Neq", StringValue(<<"get">>)),
     Condition("Name", "Regex", StringValue(<<"g.*">>)), Condition("Status", "Eq", StringValue(<<"ok">>)),
     Condition("Duration", "Gt", NumberValue(0)),
     ServiceCondition(<<"web">>), ServiceCondition(<<"unknown">>),
     [Condition("Attribute", "Eq", StringValue(<<"lib">>)) EXCEPT
         !.scope = "resource", !.name = <<"scope", "name">>],
     [Condition("Attribute", "Eq", StringValue(<<"200">>)) EXCEPT !.scope = "span", !.name = <<"code">>],
     [Condition("Attribute", "Eq", NumberValue(200)) EXCEPT !.scope = "span", !.name = <<"code">>],
     [Condition("Attribute", "Neq", StringValue(<<"200">>)) EXCEPT !.scope = "span", !.name = <<"code">>]}

Basic == {Condition("Name", "Eq", StringValue(<<"get">>)), Condition("Duration", "Gt", NumberValue(0))}

Selector(conditions, ops) == [conditions |-> conditions, ops |-> ops]

MCSelectors ==
    {Selector(<< >>, << >>)}
    \cup {Selector(<<c>>, << >>) : c \in Conditions}
    \cup {Selector(<<c, d>>, <<"And">>) :
             c \in {Condition("Duration", "Gt", NumberValue(0)), ServiceCondition(<<"web">>)}, d \in Conditions}
    \cup {Selector(<<Condition("Name", "Eq", StringValue(<<"get">>)), d>>, <<"Or">>) : d \in Conditions}
    \cup {Selector(<<c, d, ServiceCondition(<<"web">>)>>, <<o, p>>) :
             c \in Basic, d \in Basic, o \in {"And", "Or"}, p \in {"And", "Or"}}

Single(condition) ==
    [lhs |-> Selector(<<condition>>, << >>), op |-> "None",
     rhs |-> Selector(<< >>, << >>), stages |-> << >>]

Between(op, c, d) ==
    [lhs |-> Selector(<<c>>, << >>), op |-> op, rhs |-> Selector(<<d>>, << >>), stages |-> << >>]

MCExpressions ==
    {Everything, Single(Condition("Status", "Eq", StringValue(<<"error">>))),
     Between("Descendant", ServiceCondition(<<"web">>), Condition("Name", "Eq", StringValue(<<"put">>))),
     Between("Sibling", ServiceCondition(<<"db">>), Condition("Name", "Neq", StringValue(<<"x">>))),
     [Everything EXCEPT !.stages = <<[on |-> "count", op |-> "Gte", value |-> 2],
                                     [on |-> "avg", op |-> "Lt", value |-> 4]>>]}

NoFilters ==
    [traceql |-> << >>, service |-> << >>, status |-> << >>, min_duration |-> << >>,
     name |-> << >>, limit |-> << >>]

MCFilters ==
    {NoFilters, [NoFilters EXCEPT !.min_duration = <<[n |-> 1, suffix |-> "us"]>>],
     [NoFilters EXCEPT !.min_duration = <<[n |-> 1, suffix |-> "d"]>>],
     [NoFilters EXCEPT !.status = <<<<"error">>>>, !.limit = <<1>>],
     [NoFilters EXCEPT !.service = <<<<"web">>>>, !.min_duration = <<[n |-> 1, suffix |-> "ms"]>>],
     [NoFilters EXCEPT !.traceql = <<Everything>>, !.limit = <<5>>]}

Window(start, end) == [start |-> start, end |-> end]

MCWindows ==
    {Window(<< >>, << >>), Window(<< >>, <<1>>), Window(<<3>>, <<12>>)}

MCSearchLimits == {<< >>, <<0>>, <<1>>}

=============================================================================
