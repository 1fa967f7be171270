---------------------------- MODULE MCMigrations ----------------------------
\* Histories of two releases for Migrations: a first of one migration, and what a
\* second adds to it, good and bad for the gate, the database and the runner.
EXTENDS Migrations, TLC

Statement == [kind |-> "enum", schema |-> "catalogue", table |-> "product", name |-> Nobody,
              plain |-> TRUE, ifNotExists |-> FALSE, unique |-> FALSE, restatesDefault |-> FALSE,
              columns |-> {}, constraints |-> {}]
Column(name, type, notNull) == [name |-> name, type |-> type, notNull |-> notNull]
Constraint(kind, name, columns) == [kind |-> kind, name |-> name, columns |-> columns]

On(kind, schema, table) == [Statement EXCEPT !.kind = kind, !.schema = schema, !.table = table]
Table(schema, table, columns) ==
  [On("table", schema, table) EXCEPT
     !.columns = {Column(table \o "_id", "uuid", TRUE)} \cup columns,
     !.constraints = {Constraint("PK", "pk_" \o table, {table \o "_id"})}]
Trigger(schema, table) ==
  [On("trigger", schema, table) EXCEPT !.name = "tg_" \o table \o "__set_updated_at"]
Index(name, unique) == [Statement EXCEPT !.kind = "index", !.name = name, !.unique = unique]
AddColumn(schema, table, column) == [On("alter", schema, table) EXCEPT !.columns = {column}]

UpdatedAt == Column("updated_at", "timestamptz", TRUE)
Tone == [Table("catalogue", "tone", {}) EXCEPT
           !.columns = {Column("tone_id", "integer", TRUE), Column("name", "text", TRUE)},
           !.constraints = @ \cup {Constraint("UNIQUE", "uq_tone__name", {"name"})}]
Cluster == [Statement EXCEPT !.kind = "cluster"]
LongName == "ix_product__a_name_that_goes_on_past_sixty_three_bytes_and_is_cut_short"

\* down() drops the tables of up().
File(name, does) ==
  [folder |-> "persistence", name |-> name, index |-> name, padded |-> TRUE, up |-> TRUE, does |-> does,
   undoes |-> LET made == Of(ToSet(does), "table") IN
              SetToSeq({On("drop", s.schema, s.table) : s \in made})]
First == File(1, <<Table("catalogue", "product", {UpdatedAt}), Trigger("catalogue", "product"), Tone,
                   On("insert", "catalogue", "tone"), Index("ix_product__name", FALSE)>>)
Adding(files) == <<{First}, {First} \cup files>>

-----------------------------------------------------------------------------
(* The third file: a table, perhaps its trigger, perhaps something more. *)

Offer == Table("archive", "offer", {UpdatedAt})
OfferWith(columns) == [Offer EXCEPT !.columns = @ \cup columns]
OfferKeyed(k) == [Offer EXCEPT !.constraints = {k}]

Offers ==
  {Offer, Table("archive", "offer", {}), Table("archive", "orders", {}), Table("archive", "product", {UpdatedAt}),
   [Offer EXCEPT !.restatesDefault = TRUE], [Offer EXCEPT !.ifNotExists = TRUE, !.plain = FALSE]}
  \cup {OfferWith({c}) : c \in {Column("order", "text", TRUE), Column("flag", "boolean", FALSE),
                                Column("at", "timestamp", TRUE)}}
  \cup {OfferKeyed(k) : k \in {Constraint("PK", Nobody, {"offer_id"}), Constraint("PK", "pk_offer", {"id"}),
                                Constraint("CHECK", "ck_name", {})}}
Triggers == {<<>>} \cup {<<Trigger(schema, "offer")>> : schema \in {"archive", "catalogue"}}
Extras ==
  {Index(name, unique) : name \in {"ix_product__name", "uq_product__name", LongName, Nobody}, unique \in BOOLEAN}
  \cup {On("insert", schema, table) : schema \in {"catalogue", "reference"}, table \in {"product", "tone"}}
  \cup {AddColumn("archive", "offer", c) :
           c \in {UpdatedAt, Column("rank", "integer", TRUE), Column("offer_id", "uuid", TRUE)}}
  \cup {AddColumn("catalogue", "tone", Column("rank", "integer", TRUE)), On("drop", "archive", "offer"),
        Statement, Cluster, Offer}

Second == File(3, <<Offer, Trigger("archive", "offer")>>)
MCHistories ==
  {Adding({File(3, <<table>> \o trigger)}) : table \in Offers, trigger \in Triggers}
  \cup {Adding({File(3, <<table>> \o trigger \o <<s>>)}) :
           table \in {Offer, Table("archive", "offer", {})}, trigger \in Triggers, s \in Extras}
  \* the trigger in another file than its table, in the same release and in the next
  \cup {<<{First} \cup some, {First, File(3, <<Offer>>), File(4, <<Trigger("archive", "offer")>>)}>> :
           some \in {{}, {File(3, <<Offer>>)}}}
  \* files the runner refuses, does not run, or runs in another order than was meant
  \cup {Adding({f}) : f \in {[Second EXCEPT !.up = FALSE], [Second EXCEPT !.padded = FALSE],
                              [Second EXCEPT !.folder = "reviews"], [Second EXCEPT !.index = 0],
                              [Second EXCEPT !.name = 0]}}
  \cup {Adding({Second, f}) : f \in {File(3, <<Statement>>), File(2, <<Statement>>),
                                      [File(4, <<Cluster>>) EXCEPT !.index = 0]}}

Registered(evidence, truths) ==
  [q \in {evidence} \cup truths |->
     [class |-> IF q = evidence THEN "evidence" ELSE "truth", horizon |-> TRUE]]
MCRegistry == Registered("archive.offer", {"catalogue.product", "catalogue.tone"})
=============================================================================
