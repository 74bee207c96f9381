---------------------------- MODULE MCOwnership ----------------------------
EXTENDS Ownership, Widgets, UiNodes, Fluent2, Accessibility, Inputs, Texts, Graphics,
  Records, Services, Managers, Vectors

MCClasses ==
  Widgets @@ UiNodes @@ F2Controls @@ Accessibility @@ Inputs @@ Texts @@ Graphics
    @@ Records @@ Services @@ Managers @@ Vectors
MCKnownFaults ==
  WidgetFaults \cup UiNodeFaults \cup F2Faults \cup AccessibilityFaults \cup InputFaults
    \cup TextFaults \cup GraphicsFaults \cup ServiceFaults \cup ManagerFaults
    \cup VectorFaults
=============================================================================
