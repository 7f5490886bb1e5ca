------------------------------- MODULE Parser -------------------------------
(***************************************************************************)
(* Parse trees and what the interpreter makes of them (parser/parse.y,     *)
(* nodes.C, interp.C, the same in phases 5 and 6, but for the types of a   *)
(* few arguments).  The nodes of a statement come from a pool that is      *)
(* emptied for every statement; a statement that needs more ends the       *)
(* process.                                                                *)
(*                                                                         *)
(* A query is what is written: tables with aliases, attributes with        *)
(* qualifiers.  Attributes are of char(n).                                 *)
(***************************************************************************)
EXTENDS Integers, SequencesExt

CONSTANTS
  MaxNode,   \* MAXNODE
  MaxAttrs,  \* MAXATTRS
  NoName     \* a qualifier or an alias that is not there

ASSUME PoolAssumption == MaxNode \in Nat /\ MaxAttrs \in Nat \ {0}
-----------------------------------------------------------------------------
(* Nodes.  An element of a list has a node of the list and one of its own. *)

NodesOfList(n, each) == n * (1 + each)

(* attrtype with its value; attrib and val.                                *)
CreateNodes(attrs) == NodesOfList(Len(attrs), 2) + 1
InsertNodes(n)     == NodesOfList(n, 1) + NodesOfList(n, 1) + 1

(* A condition: an attribute and a value, or two attributes, and its node. *)
WhereNodes(where) == IF where = <<>> THEN 0 ELSE 3

DeleteNodes(where) == WhereNodes(where) + 1
QueryNodes(q) ==
  NodesOfList(Len(q.attrs), 1) + NodesOfList(Len(q.tables), 1) + WhereNodes(q.where) + 1

(* destroy, load, print, help, buildindex, dropindex. *)
OtherNodes == 1
-----------------------------------------------------------------------------
(* Names of relations.  What stands for several is taken for the first.    *)

Naming(tables, name) == {i \in DOMAIN tables : name \in {tables[i].rel, tables[i].alias}}

(* find_match_in_alias. *)
Match(tables, name) ==
  LET named == Naming(tables, name)
  IN  IF named = {} THEN NoName
      ELSE tables[CHOOSE i \in named : \A j \in named : i <= j].rel

(* replace_alias_in_qualattr_list: the relation of attribute a, NoName if  *)
(* there is an error.                                                      *)
RelationOf(tables, a) ==
  IF a.rel # NoName THEN Match(tables, a.rel)
  ELSE IF Len(tables) = 1 THEN tables[1].rel
  ELSE NoName

RelationsOf(tables, attrs) == [i \in DOMAIN attrs |-> RelationOf(tables, attrs[i])]

(* replace_alias_in_condition does the same.                               *)
Understood(q) == NoName \notin ToSet(RelationsOf(q.tables, q.attrs))
                                 \cup ToSet(RelationsOf(q.tables, q.where))

(* The relations that a query reads: that of its attributes, or the two of *)
(* its condition.                                                          *)
Sources(q) == IF Len(q.where) = 2 THEN RelationsOf(q.tables, q.where)
              ELSE <<RelationOf(q.tables, IF q.where = <<>> THEN q.attrs[1] ELSE q.where[1])>>

(* mk_attrnames, mk_qual_attrs: E_INCOMPATIBLE. *)
Compatible(q) == ToSet(RelationsOf(q.tables, q.attrs)) \subseteq ToSet(Sources(q))

AttrNames(attrs) == [i \in DOMAIN attrs |-> attrs[i].attr]
=============================================================================
