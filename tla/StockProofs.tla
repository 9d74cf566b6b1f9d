------------------------------ MODULE StockProofs ------------------------------
(* Theorems about Stock.                                                     *)
EXTENDS Stock, TLAPS, FiniteSetTheorems, SequenceTheorems

LEMMA ConstantFacts ==
  /\ WordSize \in Nat /\ WordSize > 1 /\ 1 \in Words /\ 0 \in Words
  /\ BaseTax \in Nat /\ MaxTax \in Nat /\ BaseTax <= MaxTax
  /\ VELOCITY_SCALING_BPS \in Nat /\ VELOCITY_WINDOW_SECS \in Nat
  /\ DefaultKey \notin Users
  BY StockAssumption DEF Words

\* More transfers never cost less, and the tax is between its two ends.
LEMMA TaxRises ==
  ASSUME NEW c \in Nat
  PROVE  /\ dynamic_stamp_tax(c) \in BaseTax .. MaxTax
         /\ dynamic_stamp_tax(c) <= dynamic_stamp_tax(c + 1)
<1>1. c * VELOCITY_SCALING_BPS \in Nat
  BY ConstantFacts
<1>2. (c + 1) * VELOCITY_SCALING_BPS = c * VELOCITY_SCALING_BPS + VELOCITY_SCALING_BPS
  BY ConstantFacts
<1> QED
  BY <1>1, <1>2, ConstantFacts DEF dynamic_stamp_tax

LEMMA ProportionalType ==
  ASSUME NEW a \in Nat, NEW b \in Nat, NEW s \in Nat
  PROVE  proportional_payout(a, b, s) \in Nat
<1>1. CASE s = 0
  BY <1>1 DEF proportional_payout
<1>2. CASE s # 0
  <2>1. a * b \in Nat /\ s \in Nat \ {0}
    BY <1>2
  <2>2. (a * b) \div s \in Nat
    BY <2>1
  <2>3. ((a * b) \div s) % WordSize \in 0 .. WordSize - 1
    BY <2>2, ConstantFacts
  <2> QED
    BY <1>2, <2>3, ConstantFacts DEF proportional_payout
<1> QED
  BY <1>1, <1>2

--------------------------------------------------------------------------------
\* The inductive invariant: a window began, and the accepted transfers came, no later
\* than now; who has no record has had no transfer.
StockInv ==
  /\ TypeOK
  /\ CountsTheWindow
  /\ \A o \in Users :
       /\ \A i \in DOMAIN accepted[o] : accepted[o][i] <= now
       /\ velocity[o] = NoVelocity => accepted[o] = << >>
       /\ velocity[o] # NoVelocity => velocity[o].window_start <= now

LEMMA InitKeeps == Init => StockInv
<1> SUFFICES ASSUME Init PROVE StockInv
  OBVIOUS
<1>1. \A o \in Owners : velocity[o] = NoVelocity
  BY DEF Init
<1>2. \A u \in Users : u \in Owners /\ accepted[u] = << >>
  BY DEF Init, Owners
<1>3. TypeOK
  BY DEF Init, TypeOK
<1> QED
  BY <1>1, <1>2, <1>3 DEF StockInv, CountsTheWindow

\* What the instructions other than the hook's leave alone.
LEMMA RestKeeps ==
  ASSUME StockInv, TypeOK', velocity' = velocity, accepted' = accepted, now' \in Nat, now' >= now
  PROVE  StockInv'
<1>1. CountsTheWindow'
  BY DEF StockInv, CountsTheWindow, Since
<1>2. ASSUME NEW o \in Users
      PROVE  /\ \A i \in DOMAIN accepted'[o] : accepted'[o][i] <= now'
             /\ velocity'[o] = NoVelocity => accepted'[o] = << >>
             /\ velocity'[o] # NoVelocity => velocity'[o].window_start <= now'
  <2>1. accepted[o] \in Seq(Nat) /\ now \in Nat
    BY DEF StockInv, TypeOK
  <2>2. \A i \in DOMAIN accepted[o] : accepted[o][i] \in Nat
    BY <2>1
  <2>3. velocity[o] # NoVelocity => velocity[o].window_start \in Nat
    BY DEF StockInv, TypeOK, Velocities, Owners
  <2> QED
    BY <2>1, <2>2, <2>3 DEF StockInv
<1> QED
  BY <1>1, <1>2 DEF StockInv

LEMMA OthersKeep ==
  ASSUME StockInv, NEW u \in Users,
         \/ initialize(u)
         \/ \E r \in Ratios : trigger_stock_split(u, r)
         \/ \E s \in Statuses : update_market_status(u, s)
         \/ \E s \in Slots, b \in PoolBalances : snapshot_dividend(u, s, b)
         \/ \E s \in Slots : claim_dividend(u, s)
  PROVE  StockInv'
<1>0. TypeOK /\ now \in Nat
  BY DEF StockInv, TypeOK
<1>1. CASE initialize(u)
  <2>1. config' \in Configs
    BY <1>1, ConstantFacts DEF initialize, Configs
  <2> QED
    BY <1>0, <1>1, <2>1, RestKeeps DEF initialize, TypeOK
<1>2. CASE \E r \in Ratios : trigger_stock_split(u, r)
  <2> PICK r \in Ratios : trigger_stock_split(u, r)
    BY <1>2
  <2>1. config \in Configs /\ r \in Words
    BY <1>0, StockAssumption DEF TypeOK, trigger_stock_split, IsAdmin
  <2>2. config' \in Configs
    BY <2>1 DEF trigger_stock_split, Configs
  <2> QED
    BY <1>0, <2>2, RestKeeps DEF trigger_stock_split, TypeOK
<1>3. CASE \E s \in Statuses : update_market_status(u, s)
  <2> PICK s \in Statuses : update_market_status(u, s)
    BY <1>3
  <2>1. config \in Configs /\ s \in Nat
    BY <1>0, StockAssumption DEF TypeOK, update_market_status, IsAdmin
  <2>2. config' \in Configs
    BY <2>1 DEF update_market_status, Configs
  <2> QED
    BY <1>0, <2>2, RestKeeps DEF update_market_status, TypeOK
<1>4. CASE \E s \in Slots, b \in PoolBalances : snapshot_dividend(u, s, b)
  <2> PICK s \in Slots, b \in PoolBalances : snapshot_dividend(u, s, b)
    BY <1>4
  <2>1. [total_supply |-> 0, pool_lamports |-> b] \in Snapshots
    BY StockAssumption DEF Snapshots
  <2>2. snapshots' \in [Slots -> Snapshots \cup {NoSnapshot}]
    BY <1>0, <2>1 DEF snapshot_dividend, TypeOK
  <2> QED
    BY <1>0, <2>2, RestKeeps DEF snapshot_dividend, TypeOK
<1>5. CASE \E s \in Slots : claim_dividend(u, s)
  <2> PICK s \in Slots : claim_dividend(u, s)
    BY <1>5
  <2>1. snapshots[s] \in Snapshots
    BY <1>0 DEF TypeOK, claim_dividend
  <2>2. snapshots[s].pool_lamports \in Nat /\ snapshots[s].total_supply \in Nat /\ UserBalance \in Nat
    BY <2>1, StockAssumption DEF Snapshots, Words
  <2> DEFINE p == proportional_payout(UserBalance, snapshots[s].pool_lamports,
                                      snapshots[s].total_supply)
  <2>3. p \in Nat
    BY <2>2, ProportionalType
  <2>4. claims' = [claims EXCEPT ![u][s] = p]
    BY DEF claim_dividend
  <2> HIDE DEF p
  <2>5. claims \in [Users -> [Slots -> Nat \cup {NoClaim}]]
    BY <1>0 DEF TypeOK
  <2>6. claims' \in [Users -> [Slots -> Nat \cup {NoClaim}]]
    BY <2>3, <2>4, <2>5
  <2> QED
    BY <1>0, <2>6, RestKeeps DEF claim_dividend, TypeOK
<1> QED
  BY <1>1, <1>2, <1>3, <1>4, <1>5

LEMMA TickKeeps ==
  ASSUME StockInv, Tick
  PROVE  StockInv'
<1>1. now \in Nat /\ now' = now + 1 /\ TypeOK
  BY DEF StockInv, TypeOK, Tick
<1>2. TypeOK'
  BY <1>1 DEF Tick, TypeOK
<1> QED
  BY <1>1, <1>2, RestKeeps DEF Tick

--------------------------------------------------------------------------------
(* The transfer hook.                                                       *)
LEMMA OpenedFacts ==
  ASSUME StockInv, NEW o \in Owners
  PROVE  /\ Opened(o) \in Velocities /\ Windowed(o) \in Velocities
         /\ Windowed(o).window_start <= now \/ o \notin Users
<1>1. now \in Nat /\ velocity[o] \in Velocities \cup {NoVelocity}
  BY DEF StockInv, TypeOK
<1>2. [window_start |-> now, transfer_count |-> 0, current_tax_bps |-> BaseTax] \in Velocities
  BY <1>1, ConstantFacts DEF Velocities
<1>3. Opened(o) \in Velocities
  BY <1>1, <1>2 DEF Opened
<1>4. Windowed(o) \in Velocities
  BY <1>1, <1>3 DEF Windowed, Velocities
<1>5. o \in Users => Opened(o).window_start <= now
  BY <1>1, ConstantFacts DEF Opened, StockInv
<1>6. o \in Users => Windowed(o).window_start <= now
  BY <1>1, <1>3, <1>5 DEF Windowed, Velocities
<1> QED
  BY <1>3, <1>4, <1>6

\* The window of a user's record counts what passed since it began, before the transfer
\* that is being looked at.
LEMMA WindowedCounts ==
  ASSUME StockInv, NEW o \in Users
  PROVE  /\ Windowed(o).transfer_count = Cardinality(Since(o, Windowed(o).window_start))
         /\ \A i \in Since(o, Windowed(o).window_start) :
              accepted[o][i] <= Windowed(o).window_start + VELOCITY_WINDOW_SECS
         /\ now <= Windowed(o).window_start + VELOCITY_WINDOW_SECS
<1>0. now \in Nat /\ accepted[o] \in Seq(Nat) /\ o \in Owners /\ o # DefaultKey
      /\ VELOCITY_WINDOW_SECS \in Nat
  BY ConstantFacts DEF StockInv, TypeOK, Owners
<1>1. \A i \in DOMAIN accepted[o] : accepted[o][i] \in Nat /\ accepted[o][i] <= now
  BY <1>0 DEF StockInv
<1>2. CASE velocity[o] = NoVelocity
  <2>1. accepted[o] = << >>
    BY <1>2 DEF StockInv
  <2>2. Opened(o) = [window_start |-> now, transfer_count |-> 0, current_tax_bps |-> BaseTax]
    BY <1>2 DEF Opened
  <2>3. Windowed(o).window_start = now /\ Windowed(o).transfer_count = 0
    BY <1>0, <2>2 DEF Windowed
  <2>4. Since(o, now) = {}
    BY <2>1 DEF Since
  <2> QED
    BY <1>0, <2>3, <2>4, FS_EmptySet
<1>3. CASE velocity[o] # NoVelocity
  <2>0. Opened(o) = velocity[o] /\ velocity[o] \in Velocities
    BY <1>0, <1>3 DEF Opened, StockInv, TypeOK
  <2>1. velocity[o].window_start \in Nat
    BY <2>0 DEF Velocities
  <2>2. /\ velocity[o].transfer_count = Cardinality(Since(o, velocity[o].window_start))
        /\ \A i \in Since(o, velocity[o].window_start) :
             accepted[o][i] <= velocity[o].window_start + VELOCITY_WINDOW_SECS
    BY <1>3 DEF StockInv, CountsTheWindow
  <2>3. CASE now - velocity[o].window_start > VELOCITY_WINDOW_SECS
    <3>1. Windowed(o).window_start = now /\ Windowed(o).transfer_count = 0
      BY <2>0, <2>3 DEF Windowed, Velocities
    <3>2. Since(o, now) = {}
      <4> SUFFICES ASSUME NEW i \in Since(o, now) PROVE FALSE
        OBVIOUS
      <4>1. i \in DOMAIN accepted[o] /\ accepted[o][i] >= now
        BY DEF Since
      <4>2. accepted[o][i] = now
        BY <1>0, <1>1, <4>1
      <4>3. i \in Since(o, velocity[o].window_start)
        BY <1>0, <2>1, <2>3, <4>1, <4>2 DEF Since
      <4> QED
        BY <1>0, <2>1, <2>2, <2>3, <4>2, <4>3
    <3> QED
      BY <1>0, <3>1, <3>2, FS_EmptySet
  <2>4. CASE ~(now - velocity[o].window_start > VELOCITY_WINDOW_SECS)
    <3>1. Windowed(o) = velocity[o]
      BY <2>0, <2>4 DEF Windowed
    <3> QED
      BY <1>0, <2>1, <2>2, <2>4, <3>1
  <2> QED
    BY <2>3, <2>4
<1> QED
  BY <1>2, <1>3

LEMMA SinceIsFinite ==
  ASSUME StockInv, NEW o \in Users, NEW start \in Nat
  PROVE  IsFiniteSet(Since(o, start)) /\ Since(o, start) \subseteq 1 .. Len(accepted[o])
<1>1. accepted[o] \in Seq(Nat)
  BY DEF StockInv, TypeOK
<1>2. Since(o, start) \subseteq 1 .. Len(accepted[o]) /\ Len(accepted[o]) \in Nat
  BY <1>1 DEF Since
<1>3. IsFiniteSet(1 .. Len(accepted[o]))
  BY <1>2, FS_Interval
<1> QED
  BY <1>2, <1>3, FS_Subset

\* An accepted transfer joins the window it falls in.
LEMMA HookCounts ==
  ASSUME StockInv, NEW o \in Users, NEW start \in Nat, start <= now,
         accepted'[o] = Append(accepted[o], now)
  PROVE  /\ Since(o, start)' = Since(o, start) \cup {Len(accepted[o]) + 1}
         /\ Cardinality(Since(o, start)') = Cardinality(Since(o, start)) + 1
         /\ \A i \in Since(o, start) : accepted'[o][i] = accepted[o][i]
         /\ accepted'[o][Len(accepted[o]) + 1] = now
<1>0. accepted[o] \in Seq(Nat) /\ now \in Nat /\ Len(accepted[o]) \in Nat
  BY DEF StockInv, TypeOK
<1>1. /\ DOMAIN accepted'[o] = 1 .. (Len(accepted[o]) + 1)
      /\ DOMAIN accepted[o] = 1 .. Len(accepted[o])
      /\ \A i \in 1 .. Len(accepted[o]) : accepted'[o][i] = accepted[o][i]
      /\ accepted'[o][Len(accepted[o]) + 1] = now
  BY <1>0
<1>2. Since(o, start)' = {i \in DOMAIN accepted'[o] : accepted'[o][i] >= start}
  BY DEF Since
<1>3. Since(o, start)' = Since(o, start) \cup {Len(accepted[o]) + 1}
  BY <1>0, <1>1, <1>2 DEF Since
<1>4. IsFiniteSet(Since(o, start)) /\ Len(accepted[o]) + 1 \notin Since(o, start)
      /\ Since(o, start) \subseteq 1 .. Len(accepted[o])
  BY <1>0, SinceIsFinite
<1>5. Cardinality(Since(o, start) \cup {Len(accepted[o]) + 1}) = Cardinality(Since(o, start)) + 1
  BY <1>4, FS_AddElement
<1> QED
  BY <1>1, <1>3, <1>4, <1>5

LEMMA HookKeeps ==
  ASSUME StockInv, NEW owner \in Owners, NEW x \in Amounts, transfer_hook(owner, x)
  PROVE  StockInv'
<1> DEFINE v == Windowed(owner)
           count == v.transfer_count + 1
           tax == dynamic_stamp_tax(count)
           new == [v EXCEPT !.transfer_count = count, !.current_tax_bps = tax]
<1>0. TypeOK /\ now \in Nat /\ velocity \in [Owners -> Velocities \cup {NoVelocity}]
      /\ accepted \in [Users -> Seq(Nat)]
  BY DEF StockInv, TypeOK
<1>1. /\ velocity' = [velocity EXCEPT ![owner] = new]
      /\ accepted' = [u \in Users |-> IF u = owner THEN Append(accepted[u], now) ELSE accepted[u]]
      /\ UNCHANGED <<arithmetic, config, snapshots, claims, now>>
  BY DEF transfer_hook
<1>2. v \in Velocities /\ (v.window_start <= now \/ owner \notin Users)
  BY OpenedFacts
<1> HIDE DEF v
<1>3. v.transfer_count \in Nat /\ v.window_start \in Nat /\ count \in Nat
  BY <1>2 DEF Velocities
<1>4. tax \in BaseTax .. MaxTax
  BY <1>3, TaxRises
<1> HIDE DEF count, tax
<1>5. /\ new \in Velocities /\ new.window_start = v.window_start
      /\ new.transfer_count = count /\ new.current_tax_bps = tax
  BY <1>2, <1>3, <1>4 DEF Velocities
<1> HIDE DEF new
<1>6. velocity' \in [Owners -> Velocities \cup {NoVelocity}] /\ velocity'[owner] = new
      /\ \A o \in Owners : o # owner => velocity'[o] = velocity[o]
  BY <1>0, <1>1, <1>5
<1>7. /\ accepted' \in [Users -> Seq(Nat)]
      /\ \A o \in Users : o # owner => accepted'[o] = accepted[o]
      /\ owner \in Users => accepted'[owner] = Append(accepted[owner], now)
  <2>1. \A u \in Users : Append(accepted[u], now) \in Seq(Nat)
    BY <1>0
  <2> QED
    BY <1>0, <1>1, <2>1
<1>8. TypeOK'
  BY <1>0, <1>1, <1>6, <1>7 DEF TypeOK
<1>9. new # NoVelocity
  BY <1>5, StockAssumption
<1>10. ASSUME NEW o \in Users, o # owner
       PROVE  /\ \A s : Since(o, s)' = Since(o, s)
              /\ velocity'[o] = velocity[o] /\ accepted'[o] = accepted[o] /\ now' = now
  BY <1>1, <1>6, <1>7, <1>10 DEF Since, Owners
<1>11. CountsTheWindow'
  <2> SUFFICES ASSUME NEW o \in Users, velocity'[o] # NoVelocity
               PROVE  /\ velocity'[o].transfer_count
                           = Cardinality(Since(o, velocity[o].window_start)')
                      /\ \A i \in Since(o, velocity[o].window_start)' :
                           accepted'[o][i] <= velocity'[o].window_start + VELOCITY_WINDOW_SECS
                      /\ velocity'[o].current_tax_bps
                           = dynamic_stamp_tax(velocity'[o].transfer_count)
    BY DEF CountsTheWindow
  <2>1. CASE o # owner
    BY <1>10, <2>1 DEF StockInv, CountsTheWindow, Since
  <2>2. CASE o = owner
    <3>1. velocity'[o] = new /\ o \in Users /\ v.window_start <= now
      BY <1>2, <1>6, <2>2
    <3>2. /\ v.transfer_count = Cardinality(Since(o, v.window_start))
          /\ \A i \in Since(o, v.window_start) :
               accepted[o][i] <= v.window_start + VELOCITY_WINDOW_SECS
          /\ now <= v.window_start + VELOCITY_WINDOW_SECS
      BY <2>2, WindowedCounts DEF v
    <3>3. accepted'[o] = Append(accepted[o], now)
      <4>1. owner \in Users => accepted'[owner] = Append(accepted[owner], now)
        BY <1>7
      <4> QED
        BY <2>2, <4>1, Zenon
    <3>4. Since(o, velocity[o].window_start)'
            = {i \in DOMAIN accepted'[o] : accepted'[o][i] >= v.window_start}
      BY <1>5, <3>1 DEF Since
    <3>5. /\ {i \in DOMAIN accepted'[o] : accepted'[o][i] >= v.window_start}
               = Since(o, v.window_start) \cup {Len(accepted[o]) + 1}
          /\ Cardinality({i \in DOMAIN accepted'[o] : accepted'[o][i] >= v.window_start})
               = Cardinality(Since(o, v.window_start)) + 1
          /\ \A i \in Since(o, v.window_start) : accepted'[o][i] = accepted[o][i]
          /\ accepted'[o][Len(accepted[o]) + 1] = now
      <4>1. PICK w \in Nat : w = v.window_start
        BY <1>3
      <4>2. Since(o, w)' = {i \in DOMAIN accepted'[o] : accepted'[o][i] >= w}
        BY DEF Since
      <4>3. w <= now
        BY <3>1, <4>1
      <4>4. /\ Since(o, w)' = Since(o, w) \cup {Len(accepted[o]) + 1}
            /\ Cardinality(Since(o, w)') = Cardinality(Since(o, w)) + 1
            /\ \A i \in Since(o, w) : accepted'[o][i] = accepted[o][i]
            /\ accepted'[o][Len(accepted[o]) + 1] = now
        BY <3>3, <4>3, HookCounts
      <4> QED
        BY <4>1, <4>2, <4>4, Zenon
    <3>6. count = Cardinality(Since(o, v.window_start)) + 1
      BY <3>2 DEF count
    <3>7. tax = dynamic_stamp_tax(count)
      BY DEF tax
    <3>8. \A i \in Since(o, v.window_start) \cup {Len(accepted[o]) + 1} :
            accepted'[o][i] <= v.window_start + VELOCITY_WINDOW_SECS
      <4>1. \A i \in Since(o, v.window_start) : accepted'[o][i] = accepted[o][i]
        BY <3>5
      <4>2. accepted'[o][Len(accepted[o]) + 1] = now
        BY <3>5
      <4>3. \A i \in Since(o, v.window_start) :
              accepted'[o][i] <= v.window_start + VELOCITY_WINDOW_SECS
        BY <3>2, <4>1
      <4>4. accepted'[o][Len(accepted[o]) + 1] <= v.window_start + VELOCITY_WINDOW_SECS
        BY <3>2, <4>2
      <4> QED
        BY <4>3, <4>4, Zenon
    <3> QED
      BY <1>5, <3>1, <3>4, <3>5, <3>6, <3>7, <3>8
  <2> QED
    BY <2>1, <2>2
<1>12. ASSUME NEW o \in Users
       PROVE  /\ \A i \in DOMAIN accepted'[o] : accepted'[o][i] <= now'
              /\ velocity'[o] = NoVelocity => accepted'[o] = << >>
              /\ velocity'[o] # NoVelocity => velocity'[o].window_start <= now'
  <2>1. CASE o # owner
    BY <1>10, <2>1 DEF StockInv
  <2>2. CASE o = owner
    <3>1. velocity'[o] # NoVelocity /\ velocity'[o].window_start <= now'
      BY <1>1, <1>2, <1>5, <1>6, <1>9, <2>2
    <3>2. accepted[o] \in Seq(Nat) /\ \A i \in DOMAIN accepted[o] : accepted[o][i] <= now
      BY <1>0 DEF StockInv
    <3>3. accepted'[o] = Append(accepted[o], now) /\ now' = now
      BY <1>1, <1>7, <2>2
    <3>4. \A i \in DOMAIN accepted'[o] : accepted'[o][i] <= now'
      BY <1>0, <3>2, <3>3
    <3> QED
      BY <3>1, <3>4
  <2> QED
    BY <2>1, <2>2
<1> QED
  BY <1>8, <1>11, <1>12 DEF StockInv

LEMMA NextKeeps == StockInv /\ [Next]_vars => StockInv'
<1> SUFFICES ASSUME StockInv, [Next]_vars PROVE StockInv'
  OBVIOUS
<1>1. CASE UNCHANGED vars
  <2>1. TypeOK' /\ velocity' = velocity /\ accepted' = accepted /\ now' = now /\ now \in Nat
    BY <1>1 DEF vars, StockInv, TypeOK
  <2> QED
    BY <2>1, RestKeeps
<1>2. CASE Next
  BY <1>2, TickKeeps, OthersKeep, HookKeeps DEF Next
<1> QED
  BY <1>1, <1>2

LEMMA StockInvariant == Spec => []StockInv
  BY InitKeeps, NextKeeps, PTL DEF Spec

--------------------------------------------------------------------------------
\* The accounts keep their types: the tax is never outside its two ends.
THEOREM StockTypes == Spec => []TypeOK
<1>1. StockInv => TypeOK
  BY DEF StockInv
<1> QED
  BY <1>1, StockInvariant, PTL

\* The counter of transfer_hook counts the accepted transfers of the window, for every
\* length of the window, whoever calls what in between.
THEOREM HookCountsTheWindow == Spec => []CountsTheWindow
<1>1. StockInv => CountsTheWindow
  BY DEF StockInv
<1> QED
  BY <1>1, StockInvariant, PTL

\* transfer_hook never lowers a trader's tax before the window's end.
THEOREM TaxStays == Spec => TaxFallsOnlyAfterWindow
<1>1. ASSUME StockInv, [Next]_vars, NEW o \in Users, velocity[o] # NoVelocity,
             velocity'[o].current_tax_bps < velocity[o].current_tax_bps,
             ~(now > velocity[o].window_start + VELOCITY_WINDOW_SECS)
      PROVE  FALSE
  <2>0. /\ velocity[o] \in Velocities /\ now \in Nat /\ o \in Owners /\ o # DefaultKey
        /\ velocity \in [Owners -> Velocities \cup {NoVelocity}]
        /\ velocity[o].current_tax_bps = dynamic_stamp_tax(velocity[o].transfer_count)
    BY <1>1, ConstantFacts DEF StockInv, TypeOK, Owners, CountsTheWindow
  <2>1. velocity[o].window_start \in Nat /\ velocity[o].transfer_count \in Nat
        /\ velocity[o].current_tax_bps \in Nat /\ VELOCITY_WINDOW_SECS \in Nat
    BY <2>0, ConstantFacts DEF Velocities
  <2>2. velocity'[o] # velocity[o]
    BY <1>1, <2>1
  <2>3. PICK x \in Amounts, p \in Owners : transfer_hook(p, x)
    BY <1>1, <2>2 DEF Next, vars, Tick, initialize, trigger_stock_split, update_market_status,
                      snapshot_dividend, claim_dividend
  <2>4. p = o
    BY <2>0, <2>2, <2>3 DEF transfer_hook
  <2>5. Windowed(o) = velocity[o]
    BY <1>1, <2>0, <2>1 DEF Windowed, Opened
  <2>6. velocity'[o].current_tax_bps = dynamic_stamp_tax(velocity[o].transfer_count + 1)
    BY <2>0, <2>3, <2>4, <2>5 DEF transfer_hook, Velocities
  <2>7. dynamic_stamp_tax(velocity[o].transfer_count)
          <= dynamic_stamp_tax(velocity[o].transfer_count + 1)
        /\ dynamic_stamp_tax(velocity[o].transfer_count + 1) \in BaseTax .. MaxTax
    BY <2>1, TaxRises
  <2> QED
    BY <1>1, <2>0, <2>1, <2>6, <2>7, ConstantFacts
<1>2. StockInv /\ [Next]_vars
      => [\A o \in Users :
            /\ velocity[o] # NoVelocity
            /\ velocity'[o].current_tax_bps < velocity[o].current_tax_bps
            => now > velocity[o].window_start + VELOCITY_WINDOW_SECS]_vars
  BY <1>1
<1> QED
  BY <1>2, StockInvariant, PTL DEF Spec, TaxFallsOnlyAfterWindow

--------------------------------------------------------------------------------
(* The fixed-point numbers of math.rs.                                      *)
LEMMA Cancel ==
  ASSUME NEW x \in Nat, NEW y \in Nat, NEW k \in Nat, k > 0
  PROVE  /\ x * k <= y * k => x <= y
         /\ x * k < y * k => x < y
<1>1. ASSUME x > y PROVE x * k >= y * k + k
  <2> DEFINE d == x - y - 1
  <2>1. d \in Nat /\ x = y + 1 + d
    BY <1>1
  <2> HIDE DEF d
  <2>2. (y + 1 + d) * k = y * k + k + d * k /\ d * k \in Nat /\ y * k \in Nat
    BY <2>1
  <2> QED
    BY <2>1, <2>2
<1>2. x * k \in Nat /\ y * k \in Nat
  OBVIOUS
<1>3. x = y => x * k = y * k
  OBVIOUS
<1> QED
  BY <1>1, <1>2, <1>3

LEMMA Quotient ==
  ASSUME NEW x \in Nat, NEW k \in Nat \ {0}
  PROVE  /\ x \div k \in Nat
         /\ (x \div k) * k <= x
         /\ x < (x \div k + 1) * k
<1>1. x \div k \in Nat /\ x % k \in 0 .. k - 1 /\ x = k * (x \div k) + (x % k)
  OBVIOUS
<1>2. (x \div k) * k = k * (x \div k) /\ (x \div k + 1) * k = k * (x \div k) + k
  BY <1>1
<1> QED
  BY <1>1, <1>2

LEMMA Scaled ==
  ASSUME NEW x \in Nat, NEW y \in Nat, NEW k \in Nat
  PROVE  /\ x <= y => x * k <= y * k
         /\ x < y /\ k > 0 => x * k < y * k
<1> DEFINE d == y - x
<1>1. ASSUME x <= y PROVE d \in Nat /\ y = x + d
  BY <1>1
<1> HIDE DEF d
<1>2. ASSUME d \in Nat PROVE (x + d) * k = x * k + d * k /\ d * k \in Nat
  BY <1>2
<1>3. ASSUME d \in Nat, d > 0, k > 0 PROVE d * k > 0
  BY <1>3
<1>4. x < y => d > 0
  BY DEF d
<1> QED
  BY <1>1, <1>2, <1>3, <1>4

LEMMA Whole ==
  ASSUME NEW k \in Nat \ {0}, NEW x \in Nat
  PROVE  (k * x) \div k = x
<1> DEFINE q == (k * x) \div k
<1>1. k * x \in Nat /\ x * k = k * x /\ k > 0
  OBVIOUS
<1>2. q \in Nat /\ q * k <= k * x /\ k * x < (q + 1) * k
  BY <1>1, Quotient, Zenon
<1> HIDE DEF q
<1>3. q <= x
  BY <1>1, <1>2, Cancel
<1>4. x < q + 1
  <2>1. q + 1 \in Nat /\ x * k < (q + 1) * k
    BY <1>1, <1>2
  <2> QED
    BY <1>1, <2>1, Cancel
<1> QED
  BY <1>2, <1>3, <1>4 DEF q

LEMMA InWord ==
  ASSUME NEW x \in Nat, x < WordSize
  PROVE  x % WordSize = x
  BY ConstantFacts

LEMMA FixedRatio ==
  ASSUME NEW a \in Nat, NEW b \in Nat, a < b
  PROVE  /\ div_fixed(a, b) \in Nat /\ div_fixed(a, b) < WordSize
         /\ div_fixed(a, b) * b <= a * WordSize
         /\ a * WordSize < (div_fixed(a, b) + 1) * b
<1> DEFINE q == (a * WordSize) \div b
<1>0. WordSize \in Nat /\ WordSize > 0 /\ b \in Nat \ {0} /\ b > 0 /\ a * WordSize \in Nat
  BY ConstantFacts
<1>1. q \in Nat /\ q * b <= a * WordSize /\ a * WordSize < (q + 1) * b
  <2>1. a * WordSize \in Nat /\ b \in Nat \ {0}
    BY <1>0
  <2> QED
    BY <2>1, Quotient, Zenon
<1>2. div_fixed(a, b) = q % WordSize
  BY <1>0 DEF div_fixed
<1> HIDE DEF q
<1>3. a * WordSize < WordSize * b
  <2>1. a * WordSize < b * WordSize /\ b * WordSize = WordSize * b
    BY <1>0, Scaled
  <2> QED
    BY <2>1
<1>4. q * b < WordSize * b
  <2>1. q * b \in Nat /\ WordSize * b \in Nat
    BY <1>0, <1>1
  <2> QED
    BY <1>0, <1>1, <1>3, <2>1
<1>5. q < WordSize
  BY <1>0, <1>1, <1>4, Cancel
<1>6. div_fixed(a, b) = q
  BY <1>1, <1>2, <1>5, InWord
<1> QED
  BY <1>1, <1>5, <1>6

LEMMA FixedProduct ==
  ASSUME NEW n \in Nat, NEW q \in Nat, n < WordSize, q < WordSize
  PROVE  /\ mul_fixed(n, q) \in Nat
         /\ mul_fixed(n, q) * WordSize <= n * q
         /\ n * q < (mul_fixed(n, q) + 1) * WordSize
<1> DEFINE f == (n * q) \div WordSize
<1>0. WordSize \in Nat /\ WordSize > 0 /\ WordSize \in Nat \ {0} /\ n * q \in Nat
  BY ConstantFacts
<1>1. f \in Nat /\ f * WordSize <= n * q /\ n * q < (f + 1) * WordSize
  <2>1. n * q \in Nat /\ WordSize \in Nat \ {0}
    BY <1>0
  <2> QED
    BY <2>1, Quotient, Zenon
<1>2. mul_fixed(n, q) = f % WordSize
  BY DEF mul_fixed
<1> HIDE DEF f
<1>3. n * q <= n * WordSize
  <2>1. q * n <= WordSize * n /\ q * n = n * q /\ WordSize * n = n * WordSize
    BY <1>0, Scaled
  <2> QED
    BY <2>1
<1>4. f * WordSize <= n * WordSize
  <2>1. f * WordSize \in Nat /\ n * WordSize \in Nat
    BY <1>0, <1>1
  <2> QED
    BY <1>0, <1>1, <1>3, <2>1
<1>5. f <= n
  BY <1>0, <1>1, <1>4, Cancel
<1>6. f < WordSize
  BY <1>0, <1>1, <1>5
<1>7. mul_fixed(n, q) = f
  BY <1>1, <1>2, <1>6, InWord
<1> QED
  BY <1>1, <1>7

LEMMA ExactShare ==
  ASSUME NEW n \in Nat, NEW a \in Nat, NEW b \in Nat, n < WordSize, a < b
  PROVE  /\ proportional_payout(n, a, b) \in Nat
         /\ proportional_payout(n, a, b) * b <= n * a
         /\ n * a < (proportional_payout(n, a, b) + 1) * b
<1> DEFINE p == (n * a) \div b
<1>0. b > 0 /\ b \in Nat \ {0} /\ n * a \in Nat /\ WordSize \in Nat
  BY ConstantFacts
<1>1. p \in Nat /\ p * b <= n * a /\ n * a < (p + 1) * b
  <2>1. n * a \in Nat /\ b \in Nat \ {0}
    BY <1>0
  <2> QED
    BY <2>1, Quotient, Zenon
<1>2. proportional_payout(n, a, b) = p % WordSize
  BY <1>0 DEF proportional_payout
<1> HIDE DEF p
<1>3. n * a <= n * b
  <2>1. a * n <= b * n /\ a * n = n * a /\ b * n = n * b
    BY Scaled
  <2> QED
    BY <2>1
<1>4. p * b <= n * b
  <2>1. p * b \in Nat /\ n * b \in Nat
    BY <1>1
  <2> QED
    BY <1>0, <1>1, <1>3, <2>1
<1>5. p < WordSize
  <2>1. p <= n
    BY <1>0, <1>1, <1>4, Cancel
  <2> QED
    BY <1>0, <1>1, <2>1
<1>6. proportional_payout(n, a, b) = p
  BY <1>1, <1>2, <1>5, InWord
<1> QED
  BY <1>1, <1>6

LEMMA ShareBelowOne ==
  ASSUME NEW n \in Words, NEW a \in Words, NEW b \in Words, a < b
  PROVE  LET fixed == mul_fixed(n, div_fixed(a, b))
             exact == proportional_payout(n, a, b)
         IN  fixed <= exact /\ exact <= fixed + 1
<1> DEFINE q == div_fixed(a, b)
           f == mul_fixed(n, q)
           p == proportional_payout(n, a, b)
           W == WordSize
<1>0. /\ n \in Nat /\ a \in Nat /\ b \in Nat /\ n < W /\ b > 0 /\ W \in Nat /\ W > 0
  BY ConstantFacts DEF Words
<1>1. q \in Nat /\ q < W /\ q * b <= a * W /\ a * W < (q + 1) * b
  BY <1>0, FixedRatio
<1> HIDE DEF q
<1>2. f \in Nat /\ f * W <= n * q /\ n * q < (f + 1) * W
  BY <1>0, <1>1, FixedProduct
<1>3. p \in Nat /\ p * b <= n * a /\ n * a < (p + 1) * b
  BY <1>0, ExactShare
<1> HIDE DEF f, p, W
<1>4. f <= p
  <2>1. (f * W) * b <= (n * q) * b
    <3>1. f * W \in Nat /\ n * q \in Nat
      BY <1>0, <1>1, <1>2
    <3> QED
      BY <1>0, <1>2, <3>1, Scaled
  <2>2. (q * b) * n <= (a * W) * n
    <3>1. q * b \in Nat /\ a * W \in Nat
      BY <1>0, <1>1
    <3> QED
      BY <1>0, <1>1, <3>1, Scaled
  <2>3. (n * q) * b = (q * b) * n /\ (a * W) * n = (n * a) * W /\ (f * W) * b = (f * b) * W
    BY <1>0, <1>1, <1>2
  <2>4. (f * b) * W <= (n * a) * W
    <3>1. (f * W) * b \in Nat /\ (n * q) * b \in Nat /\ (a * W) * n \in Nat
      BY <1>0, <1>1, <1>2
    <3> QED
      BY <2>1, <2>2, <2>3, <3>1
  <2>5. f * b <= n * a
    <3>1. f * b \in Nat /\ n * a \in Nat
      BY <1>0, <1>2
    <3> QED
      BY <1>0, <2>4, <3>1, Cancel
  <2>6. f * b < (p + 1) * b
    <3>1. f * b \in Nat /\ n * a \in Nat /\ (p + 1) * b \in Nat
      BY <1>0, <1>2, <1>3
    <3> QED
      BY <1>3, <2>5, <3>1
  <2>7. f < p + 1
    <3>1. p + 1 \in Nat
      BY <1>3
    <3> QED
      BY <1>0, <1>2, <2>6, <3>1, Cancel
  <2> QED
    BY <1>2, <1>3, <2>7
<1>5. p <= f + 1
  <2>1. (p * b) * W <= (n * a) * W
    <3>1. p * b \in Nat /\ n * a \in Nat
      BY <1>0, <1>3
    <3> QED
      BY <1>0, <1>3, <3>1, Scaled
  <2>2. (a * W) * n <= ((q + 1) * b) * n
    <3>1. a * W \in Nat /\ (q + 1) * b \in Nat /\ a * W <= (q + 1) * b
      BY <1>0, <1>1
    <3> QED
      BY <1>0, <3>1, Scaled
  <2>3. (p * b) * W = (p * W) * b /\ (n * a) * W = (a * W) * n
    BY <1>0, <1>3
  <2>4. ((q + 1) * b) * n = (n * q + n) * b
    BY <1>0, <1>1
  <2>5. (p * W) * b <= (n * q + n) * b
    <3>1. (p * b) * W \in Nat /\ (a * W) * n \in Nat /\ ((q + 1) * b) * n \in Nat
      BY <1>0, <1>1, <1>3
    <3> QED
      BY <2>1, <2>2, <2>3, <2>4, <3>1
  <2>6. p * W <= n * q + n
    <3>1. p * W \in Nat /\ n * q + n \in Nat
      BY <1>0, <1>1, <1>3
    <3> QED
      BY <1>0, <2>5, <3>1, Cancel
  <2>7. (f + 1) * W + W = (f + 2) * W
    BY <1>0, <1>2
  <2>8. p * W < (f + 2) * W
    <3>1. p * W \in Nat /\ n * q \in Nat /\ (f + 1) * W \in Nat
      BY <1>0, <1>1, <1>2, <1>3
    <3> QED
      BY <1>0, <1>2, <2>6, <2>7, <3>1
  <2>9. p < f + 2
    <3>1. f + 2 \in Nat
      BY <1>2
    <3> QED
      BY <1>0, <1>3, <2>8, <3>1, Cancel
  <2> QED
    BY <1>2, <1>3, <2>9
<1> QED
  BY <1>4, <1>5 DEF f, p, q

\* The ratio 1 does not fit in the word div_fixed returns.
LEMMA ShareOfOne ==
  ASSUME NEW n \in Words, NEW b \in Words, b > 0
  PROVE  mul_fixed(n, div_fixed(b, b)) = 0 /\ proportional_payout(n, b, b) = n
<1>0. /\ n \in Nat /\ b \in Nat \ {0} /\ n < WordSize
      /\ WordSize \in Nat \ {0} /\ WordSize > 0
  BY ConstantFacts DEF Words
<1>1. (b * WordSize) \div b = WordSize
  BY <1>0, Whole
<1>2. div_fixed(b, b) = 0
  <2>1. WordSize % WordSize = 0
    BY <1>0
  <2> QED
    BY <1>0, <1>1, <2>1 DEF div_fixed
<1>3. mul_fixed(n, 0) = 0
  <2>1. n * 0 = 0 /\ 0 \div WordSize = 0 /\ 0 % WordSize = 0
    BY <1>0
  <2> QED
    BY <2>1 DEF mul_fixed
<1>4. (n * b) \div b = n
  <2>1. n * b = b * n
    BY <1>0
  <2> QED
    BY <1>0, <2>1, Whole
<1>5. proportional_payout(n, b, b) = n
  BY <1>0, <1>4, InWord DEF proportional_payout
<1> QED
  BY <1>2, <1>3, <1>5

\* A share computed in fixed point, the ratio first, is never more than the exact payout
\* and at most one unit less while the ratio is below 1, whatever the width.  The ratio 1
\* wraps to 0 in div_fixed: who holds everything would get nothing instead of all of it.
\* (div_fixed, mul_fixed, proportional_payout.)
THEOREM FixedShareBound ==
  ASSUME NEW n \in Words, NEW a \in Words, NEW b \in Words, b > 0, a <= b
  PROVE  LET fixed == mul_fixed(n, div_fixed(a, b))
             exact == proportional_payout(n, a, b)
         IN  IF a < b THEN fixed <= exact /\ exact <= fixed + 1
                      ELSE fixed = 0 /\ exact = n
<1>1. CASE a < b
  BY <1>1, ShareBelowOne
<1>2. CASE ~(a < b)
  <2>1. a = b
    BY <1>2, ConstantFacts DEF Words
  <2> QED
    BY <1>2, <2>1, ShareOfOne
<1> QED
  BY <1>1, <1>2

\* An integer survives its conversion to a fixed-point number and back, for every
\* width: to_fixed, from_fixed.
THEOREM FixedRoundTrip == \A value \in Words : from_fixed(to_fixed(value)) = value
<1> SUFFICES ASSUME NEW value \in Words PROVE from_fixed(to_fixed(value)) = value
  OBVIOUS
<1>0. value \in Nat /\ value < WordSize /\ WordSize \in Nat \ {0} /\ WordSize > 0
  BY ConstantFacts DEF Words
<1> DEFINE q == (value * WordSize) \div WordSize
<1>1. q \in Nat /\ q * WordSize <= value * WordSize /\ value * WordSize < (q + 1) * WordSize
  <2>1. value * WordSize \in Nat /\ WordSize \in Nat \ {0}
    BY <1>0
  <2> QED
    BY <2>1, Quotient, Zenon
<1>2. from_fixed(to_fixed(value)) = q % WordSize
  BY DEF from_fixed, to_fixed
<1> HIDE DEF q
<1>3. q <= value
  BY <1>0, <1>1, Cancel
<1>4. value < q + 1
  <2>1. q + 1 \in Nat
    BY <1>1
  <2> QED
    BY <1>0, <1>1, <2>1, Cancel
<1>5. q = value
  BY <1>0, <1>1, <1>3, <1>4
<1> QED
  BY <1>0, <1>2, <1>5, InWord
================================================================================
