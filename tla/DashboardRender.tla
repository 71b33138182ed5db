-------------------------- MODULE DashboardRender --------------------------
(***************************************************************************)
(* What the dashboards of DashboardGate are rendered to: compose() and     *)
(* encode() of the three generators under scripts/dashboards/internal.     *)
(***************************************************************************)
EXTENDS DashboardGate, DashboardJson

\* compose(): the y-base of a row is the sum of the heights above it.
YBase(src, i) == FoldLeft(+, 0, SubSeq(src, 1, i - 1))

\* The JSON the SDK may give for a dashboard: what it fills in at the root and
\* the order of the tags mean nothing.
Raws(src) ==
    {Object([version |-> Prim(v), id |-> Prim(v),
             tags |-> Array(<<Prim(t[1]), Prim(t[2])>>),
             panels |-> Array([i \in DOMAIN src |->
                 Object([id |-> Prim(i),
                         gridPos |-> Object([h |-> Prim(src[i]),
                                             y |-> Prim(YBase(src, i))])])])])
       : v \in 0..1, t \in {<<"chalupa", "trading">>, <<"trading", "chalupa">>}}

\* encode(): <<dashboard, source, output>> for every output it may have.
Encodings ==
    UNION {UNION {{<<d, src, f>> : f \in UNION {Normalize(raw.of) :
                                                  raw \in Raws(src)}}
                  : src \in Sources(d)} : d \in Dashboards}

EncodedAs(d, src) == {e[3] : e \in {x \in Encodings : x[1] = d /\ x[2] = src}}
=============================================================================
