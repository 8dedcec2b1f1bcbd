--------------------------- MODULE SchemaMigrations ---------------------------
(***************************************************************************)
(* The migrations of the database: a chain of revisions, each a list of    *)
(* operations for the way up and one for the way down.  `alembic upgrade   *)
(* head` (run by the entry point of the API) goes up to the last one,      *)
(* `alembic downgrade -1` takes one back.                                  *)
(*                                                                         *)
(* An object of the schema is a table, an index or an added column of one, *)
(* a reference between two, or an enumerated type.  What a create_table    *)
(* lists and nothing later touches is not followed, nor are the labels of  *)
(* a type.  Of the rows, four kinds stop a migration or are lost by it.    *)
(***************************************************************************)
EXTENDS Naturals, Sequences, FiniteSets

VARIABLES
  at,       \* alembic_version: how many revisions are applied
  schema,   \* the objects of the database
  rows,     \* the kinds of rows it holds
  broken,   \* history: an operation failed on the schema itself
  fresh     \* history: the schema of each revision when it was first reached

vars == << at, schema, rows, broken, fresh >>

Rows == {"embedding", "subject_icon", "no_password", "reused_name"}

-----------------------------------------------------------------------------
(* Operations.  One that creates fails if its object is there, or what it  *)
(* refers to is not; one that drops fails if it is not there, or referred  *)
(* to by another table.                                                    *)

Op(do, obj, on) == [do |-> do, obj |-> obj, on |-> on]

TableOf(t) == << "table", t >>

CreateTable(t, refs)      == Op("create", TableOf(t), {TableOf(r) : r \in refs})
CreateIndex(t, name)      == Op("create", << "index", t, name >>, {TableOf(t)})
AddColumn(t, name)        == Op("create", << "column", t, name >>, {TableOf(t)})
AddReference(t, target)   == Op("create", << "reference", t, target >>,
                                {TableOf(t), TableOf(target)})
CreateType(name)          == Op("create", << "type", name >>, {})
EnsureType(name)          == Op("ensure", << "type", name >>, {})
AlterColumn(t, name)      == Op("alter", << "column", t, name >>, {TableOf(t)})
DropTable(t)              == Op("drop", TableOf(t), {})
DropIndex(t, name)        == Op("drop", << "index", t, name >>, {})
DropColumn(t, name)       == Op("drop", << "column", t, name >>, {})
DropReference(t, target)  == Op("drop", << "reference", t, target >>, {})
DropType(name)            == Op("drop", << "type", name >>, {})

\* The references that come with a table.
References(op) ==
  IF op.obj[1] = "table" THEN {<< "reference", op.obj[2], r[2] >> : r \in op.on} ELSE {}

\* What is gone with an object.
Dependents(obj, s) ==
  {obj} \cup IF obj[1] = "table" THEN {o \in s : o[1] # "type" /\ o[2] = obj[2]} ELSE {}

Refused(op, s) ==
  CASE op.do = "create" -> op.obj \in s \/ ~(op.on \subseteq s)
    [] op.do = "drop"   -> \/ op.obj \notin s
                           \/ /\ op.obj[1] = "table"
                              /\ \E o \in s \ Dependents(op.obj, s) :
                                   o[1] = "reference" /\ o[3] = op.obj[2]
    [] OTHER            -> ~(op.on \subseteq s)

Run(s, op) ==
  CASE op.do \in {"create", "ensure"} -> s \cup {op.obj} \cup References(op)
    [] op.do = "drop"                 -> s \ Dependents(op.obj, s)
    [] OTHER                          -> s

\* A list of operations: the schema after it, and whether all of them worked.
Apply(ops, s) ==
  LET after[n \in 0 .. Len(ops)] ==
        IF n = 0 THEN [ok |-> TRUE, s |-> s]
        ELSE LET last == after[n - 1] IN
             [ok |-> last.ok /\ ~Refused(ops[n], last.s), s |-> Run(last.s, ops[n])]
  IN  after[Len(ops)]

-----------------------------------------------------------------------------
(* The revisions, by the first letters of their identifiers.               *)

Up_93f9 ==
  << CreateTable("providers", {}), CreateIndex("providers", "slug"),
     CreateType("user_status"), CreateTable("users", {}), CreateIndex("users", "email"),
     CreateType("auth_event"), CreateTable("auth_logs", {"users"}),
     CreateIndex("auth_logs", "email"), CreateIndex("auth_logs", "user_id"),
     CreateTable("refresh_tokens", {"users"}), CreateIndex("refresh_tokens", "token_hash"),
     CreateIndex("refresh_tokens", "user_id"),
     CreateTable("user_providers", {"providers", "users"}),
     CreateIndex("user_providers", "provider_id"),
     CreateIndex("user_providers", "user_id") >>
Down_93f9 ==
  << DropIndex("user_providers", "user_id"), DropIndex("user_providers", "provider_id"),
     DropTable("user_providers"), DropIndex("refresh_tokens", "user_id"),
     DropIndex("refresh_tokens", "token_hash"), DropTable("refresh_tokens"),
     DropIndex("auth_logs", "user_id"), DropIndex("auth_logs", "email"),
     DropTable("auth_logs"), DropIndex("users", "email"), DropTable("users"),
     DropIndex("providers", "slug"), DropTable("providers"), DropType("auth_event"),
     DropType("user_status") >>

Up_ea0c ==
  << CreateIndex("auth_logs", "created_at"), DropIndex("refresh_tokens", "token_hash"),
     CreateIndex("refresh_tokens", "expires_at") >>
Down_ea0c ==
  << DropIndex("refresh_tokens", "expires_at"),
     CreateIndex("refresh_tokens", "token_hash"), DropIndex("auth_logs", "created_at") >>

Up_0b53 == << CreateTable("subjects", {"users"}), CreateIndex("subjects", "user_id") >>
Down_0b53 == << DropIndex("subjects", "user_id"), DropTable("subjects") >>

Up_662e ==
  << CreateTable("plans", {"subjects", "users"}), CreateIndex("plans", "subject_id"),
     CreateIndex("plans", "user_id") >>
Down_662e ==
  << DropIndex("plans", "user_id"), DropIndex("plans", "subject_id"), DropTable("plans") >>

Up_f6df ==
  << CreateTable("modules", {"plans", "users"}), CreateIndex("modules", "created_by"),
     CreateIndex("modules", "plan_id"), CreateIndex("modules", "user_id") >>
Down_f6df ==
  << DropIndex("modules", "user_id"), DropIndex("modules", "plan_id"),
     DropIndex("modules", "created_by"), DropTable("modules") >>

Up_38fb ==
  << CreateTable("academic_items", {"modules", "users"}),
     CreateIndex("academic_items", "created_by"),
     CreateIndex("academic_items", "item_category_id"),
     CreateIndex("academic_items", "module_id"), CreateIndex("academic_items", "user_id") >>
Down_38fb ==
  << DropIndex("academic_items", "user_id"), DropIndex("academic_items", "module_id"),
     DropIndex("academic_items", "item_category_id"),
     DropIndex("academic_items", "created_by"), DropTable("academic_items") >>

Up_97fa ==
  << CreateTable("academic_item_category", {}),
     CreateTable("academic_item_category_types", {"academic_item_category"}),
     CreateIndex("academic_item_category_types", "academic_item_category_id") >>
Down_97fa ==
  << DropIndex("academic_item_category_types", "academic_item_category_id"),
     DropTable("academic_item_category_types"), DropTable("academic_item_category") >>

Up_23b9 ==
  << CreateTable("document_format", {}), CreateIndex("document_format", "format"),
     CreateTable("document", {"document_format", "subjects"}),
     CreateIndex("document", "document_format_id"), CreateIndex("document", "subject_id"),
     CreateTable("chunks", {"document"}), CreateIndex("chunks", "document_id"),
     CreateTable("document_content", {"document"}),
     CreateIndex("document_content", "document_id") >>
Down_23b9 ==
  << DropIndex("document_content", "document_id"), DropTable("document_content"),
     DropIndex("chunks", "document_id"), DropTable("chunks"),
     DropIndex("document", "subject_id"), DropIndex("document", "document_format_id"),
     DropTable("document"), DropIndex("document_format", "format"),
     DropTable("document_format") >>

Up_3440 ==
  << DropTable("chunks"), CreateTable("chunks", {"document_content"}),
     CreateIndex("chunks", "document_content_id"), CreateIndex("chunks", "embedding") >>
Down_3440 ==
  << DropIndex("chunks", "embedding"), DropIndex("chunks", "document_content_id"),
     DropTable("chunks"), CreateTable("chunks", {"document"}),
     CreateIndex("chunks", "document_id") >>

Up_6703 ==
  << DropIndex("chunks", "embedding"), AlterColumn("chunks", "embedding"),
     CreateIndex("chunks", "embedding") >>
Down_6703 ==
  << DropIndex("chunks", "embedding"), AlterColumn("chunks", "embedding"),
     CreateIndex("chunks", "embedding") >>

Up_4b6e == << EnsureType("user_role"), AddColumn("users", "role") >>
Down_4b6e == << DropColumn("users", "role"), DropType("user_role") >>

Up_d4e5 ==
  << EnsureType("audit_action"), CreateTable("audit_logs", {"users"}),
     CreateIndex("audit_logs", "actor_id"), CreateIndex("audit_logs", "created_at"),
     CreateIndex("audit_logs", "entity_entity_id") >>
Down_d4e5 ==
  << DropIndex("audit_logs", "entity_entity_id"), DropIndex("audit_logs", "created_at"),
     DropIndex("audit_logs", "actor_id"), DropTable("audit_logs"),
     DropType("audit_action") >>

Up_e5a1 ==
  << EnsureType("ingestion_status"), AddColumn("document", "ingestion_status"),
     AddColumn("document", "ingestion_error"),
     CreateIndex("document", "ingestion_status") >>
Down_e5a1 ==
  << DropIndex("document", "ingestion_status"), DropColumn("document", "ingestion_error"),
     DropColumn("document", "ingestion_status"), DropType("ingestion_status") >>

Up_a1c2 == << CreateTable("ai_provider", {}), CreateIndex("ai_provider", "name") >>
Down_a1c2 == << DropIndex("ai_provider", "name"), DropTable("ai_provider") >>

Up_f1a2 ==
  << EnsureType("generation_run_status"), EnsureType("generation_item_status"),
     CreateTable("plan_generation", {"plans", "users"}),
     CreateIndex("plan_generation", "plan_id"), CreateIndex("plan_generation", "user_id"),
     CreateIndex("plan_generation", "status"),
     AddColumn("academic_items", "generation_id"),
     AddColumn("academic_items", "generation_status"),
     AddColumn("academic_items", "generation_prompt"),
     AddColumn("academic_items", "generation_error"),
     AddReference("academic_items", "plan_generation"),
     CreateIndex("academic_items", "generation_id") >>
Down_f1a2 ==
  << DropIndex("academic_items", "generation_id"),
     DropReference("academic_items", "plan_generation"),
     DropColumn("academic_items", "generation_error"),
     DropColumn("academic_items", "generation_prompt"),
     DropColumn("academic_items", "generation_status"),
     DropColumn("academic_items", "generation_id"), DropIndex("plan_generation", "status"),
     DropIndex("plan_generation", "user_id"), DropIndex("plan_generation", "plan_id"),
     DropTable("plan_generation"), DropType("generation_item_status"),
     DropType("generation_run_status") >>

Up_b2d4 ==
  << CreateTable("plan_document", {"document", "plans"}),
     CreateIndex("plan_document", "plan_id"), CreateIndex("plan_document", "document_id") >>
Down_b2d4 ==
  << DropIndex("plan_document", "document_id"), DropIndex("plan_document", "plan_id"),
     DropTable("plan_document") >>

Up_c3e5 ==
  << CreateTable("icons", {}), CreateIndex("icons", "name"), CreateTable("colors", {}),
     CreateIndex("colors", "name"), AddReference("subjects", "icons"),
     AddReference("subjects", "colors") >>
Down_c3e5 ==
  << DropReference("subjects", "colors"), DropReference("subjects", "icons"),
     DropIndex("colors", "name"), DropTable("colors"), DropIndex("icons", "name"),
     DropTable("icons") >>

Up_d1e2 ==
  << AddColumn("subjects", "deleted_at"), AddColumn("plans", "deleted_at"),
     AddColumn("modules", "deleted_at"), AddColumn("academic_item_category", "deleted_at"),
     AddColumn("academic_item_category_types", "deleted_at"),
     AddColumn("icons", "deleted_at"), AddColumn("colors", "deleted_at"),
     DropIndex("icons", "name"), CreateIndex("icons", "active_name"),
     DropIndex("colors", "name"), CreateIndex("colors", "active_name"),
     DropIndex("users", "email"), CreateIndex("users", "active_email") >>
Down_d1e2 ==
  << DropIndex("users", "active_email"), CreateIndex("users", "email"),
     DropIndex("colors", "active_name"), CreateIndex("colors", "name"),
     DropIndex("icons", "active_name"), CreateIndex("icons", "name"),
     DropColumn("colors", "deleted_at"), DropColumn("icons", "deleted_at"),
     DropColumn("academic_item_category_types", "deleted_at"),
     DropColumn("academic_item_category", "deleted_at"),
     DropColumn("modules", "deleted_at"), DropColumn("plans", "deleted_at"),
     DropColumn("subjects", "deleted_at") >>

Up_31c3 ==
  << CreateType("verification_purpose"), CreateTable("verification_tokens", {"users"}),
     CreateIndex("verification_tokens", "hash_purpose"),
     CreateIndex("verification_tokens", "user_id"),
     AddColumn("users", "email_verified_at") >>
\* A bug: the type that came with the table is left behind.
Down_31c3_Forgets ==
  << DropColumn("users", "email_verified_at"), DropIndex("verification_tokens", "user_id"),
     DropIndex("verification_tokens", "hash_purpose"), DropTable("verification_tokens") >>

Down_31c3 ==
  << DropColumn("users", "email_verified_at"), DropIndex("verification_tokens", "user_id"),
     DropIndex("verification_tokens", "hash_purpose"), DropTable("verification_tokens"),
     DropType("verification_purpose") >>

Up_e10e ==
  << EnsureType("plan_level"), AddColumn("plans", "level"), AddColumn("plans", "audience"),
     AddColumn("plans", "objectives"), AddColumn("plans", "prior_knowledge"),
     AddColumn("plans", "resources") >>
Down_e10e ==
  << DropColumn("plans", "resources"), DropColumn("plans", "prior_knowledge"),
     DropColumn("plans", "objectives"), DropColumn("plans", "audience"),
     DropColumn("plans", "level"), DropType("plan_level") >>

Up_55d0 ==
  << AddColumn("document", "ingestion_chunks_total"),
     AddColumn("document", "ingestion_chunks_done"),
     AddColumn("document", "ingestion_started_at") >>
Down_55d0 ==
  << DropColumn("document", "ingestion_started_at"),
     DropColumn("document", "ingestion_chunks_done"),
     DropColumn("document", "ingestion_chunks_total") >>

Up_f239 == << AddColumn("document", "original_filename") >>
Down_f239 == << DropColumn("document", "original_filename") >>

Up_902b == << AlterColumn("users", "password_hash") >>
Down_902b == << AlterColumn("users", "password_hash") >>

Up_92d8 ==
  << AddColumn("plan_generation", "llm_calls"),
     AddColumn("plan_generation", "llm_input_tokens"),
     AddColumn("plan_generation", "llm_output_tokens"),
     AddColumn("plan_generation", "llm_cost_usd") >>
Down_92d8 ==
  << DropColumn("plan_generation", "llm_cost_usd"),
     DropColumn("plan_generation", "llm_output_tokens"),
     DropColumn("plan_generation", "llm_input_tokens"),
     DropColumn("plan_generation", "llm_calls") >>

Up_9175 ==
  << CreateTable("academic_item_source", {"academic_items", "document"}),
     CreateIndex("academic_item_source", "document_id"),
     CreateIndex("academic_item_source", "item_rank") >>
Down_9175 ==
  << DropIndex("academic_item_source", "item_rank"),
     DropIndex("academic_item_source", "document_id"), DropTable("academic_item_source") >>

Up_a41c == << AddColumn("chunks", "content_tsv"), CreateIndex("chunks", "content_tsv") >>
Down_a41c == << DropIndex("chunks", "content_tsv"), DropColumn("chunks", "content_tsv") >>

Up_359c ==
  << CreateTable("plan_generation_model_usage", {"plan_generation"}),
     CreateIndex("plan_generation_model_usage", "generation_id") >>
Down_359c ==
  << DropIndex("plan_generation_model_usage", "generation_id"),
     DropTable("plan_generation_model_usage") >>

-----------------------------------------------------------------------------

Revision(name, up, down) == [name |-> name, up |-> up, down |-> down]

\* The chain that the down_revisions make.
Revisions ==
  << Revision("93f9", Up_93f9, Down_93f9), Revision("ea0c", Up_ea0c, Down_ea0c),
     Revision("0b53", Up_0b53, Down_0b53), Revision("662e", Up_662e, Down_662e),
     Revision("f6df", Up_f6df, Down_f6df), Revision("38fb", Up_38fb, Down_38fb),
     Revision("97fa", Up_97fa, Down_97fa), Revision("23b9", Up_23b9, Down_23b9),
     Revision("3440", Up_3440, Down_3440), Revision("6703", Up_6703, Down_6703),
     Revision("4b6e", Up_4b6e, Down_4b6e), Revision("d4e5", Up_d4e5, Down_d4e5),
     Revision("e5a1", Up_e5a1, Down_e5a1), Revision("a1c2", Up_a1c2, Down_a1c2),
     Revision("f1a2", Up_f1a2, Down_f1a2), Revision("b2d4", Up_b2d4, Down_b2d4),
     Revision("c3e5", Up_c3e5, Down_c3e5), Revision("d1e2", Up_d1e2, Down_d1e2),
     Revision("31c3", Up_31c3, Down_31c3), Revision("e10e", Up_e10e, Down_e10e),
     Revision("55d0", Up_55d0, Down_55d0), Revision("f239", Up_f239, Down_f239),
     Revision("902b", Up_902b, Down_902b), Revision("92d8", Up_92d8, Down_92d8),
     Revision("9175", Up_9175, Down_9175), Revision("a41c", Up_a41c, Down_a41c),
     Revision("359c", Up_359c, Down_359c) >>

Head_ == Len(Revisions)

IndexOf(name) == CHOOSE i \in 1 .. Head_ : Revisions[i].name = name

Has(name) == at >= IndexOf(name)

\* The rows an operation cannot work on: vectors of another width, an icon that is in no
\* catalog, two rows of one name once the deleted one counts too.
StopsUp(name) ==
  CASE name = "6703" -> {"embedding"}
    [] name = "c3e5" -> {"subject_icon"}
    [] OTHER         -> {}

StopsDown(name) ==
  CASE name = "6703" -> {"embedding"}
    [] name = "d1e2" -> {"reused_name"}
    [] OTHER         -> {}

\* The rows that go with what is dropped, or are deleted to make it possible.
Lost(name) ==
  CASE name \in {"3440", "23b9"} -> {"embedding"}
    [] name = "0b53"             -> {"subject_icon"}
    [] name = "902b"             -> {"no_password"}
    [] OTHER                     -> {}

Init ==
  /\ at = 0
  /\ schema = {}
  /\ rows = {}
  /\ broken = FALSE
  /\ fresh = << >>

\* The application writes rows of a kind that its schema allows.
Write(kind) ==
  /\ kind \notin rows
  /\ CASE kind = "embedding"    -> Has("3440")
       [] kind = "subject_icon" -> Has("c3e5")
       [] kind = "no_password"  -> Has("902b")
       [] OTHER                 -> Has("d1e2")
  /\ rows' = rows \cup {kind}
  /\ UNCHANGED << at, schema, broken, fresh >>

\* One revision up.  A failure rolls back; `upgrade head` is the whole way up in one
\* transaction, so it stops where it began, and nobody sees the steps in between.
UpgradeOne ==
  /\ at < Head_
  /\ LET r == Revisions[at + 1]
         result == Apply(r.up, schema) IN
     /\ broken' = (broken \/ ~result.ok)
     /\ IF result.ok /\ rows \cap StopsUp(r.name) = {}
        THEN /\ at' = at + 1 /\ schema' = result.s
             /\ rows' = IF r.name = "3440" THEN rows \ Lost(r.name) ELSE rows
             /\ fresh' = IF at = Len(fresh) THEN Append(fresh, result.s) ELSE fresh
        ELSE UNCHANGED << at, schema, rows, fresh >>

DowngradeOne ==
  /\ at > 0
  /\ LET r == Revisions[at]
         result == Apply(r.down, schema) IN
     /\ broken' = (broken \/ ~result.ok)
     /\ IF result.ok /\ rows \cap StopsDown(r.name) = {}
        THEN at' = at - 1 /\ schema' = result.s /\ rows' = rows \ Lost(r.name)
        ELSE UNCHANGED << at, schema, rows >>
  /\ UNCHANGED fresh

Next == (\E kind \in Rows : Write(kind)) \/ UpgradeOne \/ DowngradeOne

Spec == Init /\ [][Next]_vars

-----------------------------------------------------------------------------

TypeOK ==
  /\ at \in 0 .. Head_
  /\ rows \in SUBSET Rows
  /\ broken \in BOOLEAN
  /\ at <= Len(fresh) /\ Len(fresh) <= Head_
  /\ \A o \in schema : o[1] \in {"table", "index", "column", "reference", "type"}

\* However often one goes down and up again, no operation finds an object there that it
\* creates, or misses one that it drops ("or a re-upgrade fails with type already
\* exists", 31c3d165d76f, downgrade), and the schema is that of a database that never
\* went down: a step back takes away all that its step up made, and nothing else.
EveryPathApplies == ~broken /\ schema = IF at = 0 THEN {} ELSE fresh[at]
=============================================================================
