--------------------------- MODULE MCStageAnalysis ---------------------------
(***************************************************************************)
(* Judged pools for StageAnalysis.  A world is a first query of four       *)
(* products and a second one of three, each product with its signals       *)
(* <<title, exact, fields, rescored>>, and a few labellings of both.  The  *)
(* worlds were chosen so that every subset of the candidates is the set    *)
(* that passes the gates in some of them, that queries improve under one   *)
(* weight and get worse under another, and that products are lost at every *)
(* stage.                                                                  *)
(***************************************************************************)
EXTENDS StageAnalysis

MCDiscounts == <<1000, 631, 500>>

World(first, firstLabels, second, secondLabels) ==
    LET Pool(signals, labels) ==
            [k \in DOMAIN signals |->
                [label |-> labels[k], title |-> signals[k][1], exact |-> signals[k][2],
                 fields |-> signals[k][3], rescored |-> signals[k][4]]]
    IN {<<Pool(first, a), Pool(second, b)>> : a \in firstLabels, b \in secondLabels}

(* Every product but one has a title match; the fields promote others.      *)
TitleHeavy == World(
    <<<<1, 0, 3, 1>>, <<2, 0, 1, 1>>, <<1, 1, 3, 1>>, <<3, 0, 1, 3>>>>,
    {<<"E", "C", "E", "E">>, <<"E", "I", "I", "C">>, <<"E", "C", "I", "E">>, <<"E", "C", "E", "I">>},
    <<<<2, 0, 1, 3>>, <<0, 0, 2, 0>>, <<0, 8, 4, 0>>>>,
    {<<"I", "E", "C">>})

(* An identifier match without a title, beside a match in the fields only.  *)
Identifiers == World(
    <<<<3, 0, 1, 3>>, <<0, 8, 3, 0>>, <<0, 0, 2, 0>>, <<3, 1, 1, 3>>>>,
    {<<"C", "C", "E", "E">>, <<"C", "I", "E", "I">>},
    <<<<0, 8, 3, 0>>, <<1, 0, 2, 2>>, <<2, 0, 3, 2>>>>,
    {<<"E", "C", "C">>})

(* Two products that the fields alone can find.                             *)
FieldsOnly == World(
    <<<<0, 0, 1, 0>>, <<0, 0, 2, 0>>, <<2, 8, 1, 2>>, <<2, 0, 1, 3>>>>,
    {<<"C", "E", "E", "E">>, <<"E", "I", "E", "I">>},
    <<<<1, 0, 3, 3>>, <<0, 0, 3, 0>>, <<3, 0, 2, 2>>>>,
    {<<"C", "E", "I">>})

(* Everything is found, and the channels disagree on the order.             *)
Disputed == World(
    <<<<2, 0, 1, 3>>, <<1, 0, 4, 2>>, <<0, 8, 3, 0>>, <<3, 8, 2, 2>>>>,
    {<<"C", "C", "I", "E">>, <<"C", "E", "C", "I">>},
    <<<<0, 0, 4, 0>>, <<0, 8, 3, 0>>, <<1, 0, 1, 3>>>>,
    {<<"E", "C", "C">>})

Crowded == World(
    <<<<2, 0, 3, 3>>, <<0, 8, 2, 0>>, <<3, 0, 4, 1>>, <<1, 1, 2, 1>>>>,
    {<<"C", "E", "E", "I">>, <<"E", "I", "I", "C">>},
    <<<<2, 0, 2, 3>>, <<0, 0, 1, 0>>, <<3, 0, 2, 2>>>>,
    {<<"C", "C", "E">>})

MCInputs == TitleHeavy \cup Identifiers \cup FieldsOnly \cup Disputed \cup Crowded
=============================================================================
