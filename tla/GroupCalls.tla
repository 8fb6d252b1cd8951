------------------------------- MODULE GroupCalls ------------------------------
(***************************************************************************)
(* The methods of the layers for groups and for business accounts:         *)
(* GroupLayer, CommunityLayer, NewsletterLayer, LabelsLayer, CatalogLayer  *)
(* and BusinessLayer (src/api/layers/).  The kinds of step are those of    *)
(* SenderCalls.                                                            *)
(***************************************************************************)
EXTENDS SenderCalls

\* getGroupMembers asks for the ids, then for every contact.
GroupInvites ==
  [leaveGroup                 |-> Act,
   getGroupMembersIds         |-> Query,
   getGroupMembers            |-> <<"query", "query">>,
   getGroupInviteLink         |-> Query,
   revokeGroupInviteLink      |-> Act,
   getGroupInfoFromInviteLink |-> Query,
   createGroup                |-> Act,
   removeParticipant          |-> Act,
   addParticipant             |-> Act]

GroupSettings ==
  [promoteParticipant  |-> Act,
   demoteParticipant   |-> Act,
   getGroupAdmins      |-> Query,
   joinGroup           |-> Act,
   setGroupDescription |-> Act,
   setGroupSubject     |-> Act,
   setGroupProperty    |-> Act]

\* removeGroupIcon only checks that it was given an id; the answer to a membership request
\* holds an error for each id it could not let in or turn away.
GroupRequests ==
  [setGroupIcon                  |-> <<"read", "mime", "act">>,
   removeGroupIcon               |-> <<"mime", "act">>,
   groupSizeLimit                |-> Query,
   approveGroupMembershipRequest |-> May,
   rejectGroupMembershipRequest  |-> May,
   getGroupMembershipRequests    |-> Query]

CommunityControls ==
  [createCommunity             |-> Act,
   deactivateCommunity         |-> Act,
   addSubgroupsCommunity       |-> Act,
   removeSubgroupsCommunity    |-> Act,
   demoteCommunityParticipant  |-> Act,
   promoteCommunityParticipant |-> Act,
   getCommunityParticipants    |-> Query]

NewsletterControls ==
  [createNewsletter  |-> Act,
   destroyNewsletter |-> Act,
   editNewsletter    |-> Act,
   muteNesletter     |-> Act]

\* getLabelById does not return the label either.
LabelControls ==
  [addNewLabel       |-> <<"ignore">>,
   addOrRemoveLabels |-> <<"ignore">>,
   getAllLabels      |-> Query,
   getLabelById      |-> <<"ignore">>,
   deleteAllLabels   |-> <<"ignore">>,
   deleteLabel       |-> <<"ignore">>]

ProductControls ==
  [createProduct      |-> Act,
   getProducts        |-> Query,
   getProductById     |-> Query,
   editProduct        |-> Act,
   delProducts        |-> Act,
   changeProductImage |-> Act,
   addProductImage    |-> Act]

CollectionControls ==
  [removeProductImage   |-> Act,
   getCollections       |-> Query,
   createCollection     |-> Act,
   editCollection       |-> Act,
   deleteCollection     |-> Act,
   setProductVisibility |-> Act,
   updateCartEnabled    |-> Act]

BusinessReaders ==
  [getBusinessProfilesProducts |-> Query,
   getBusinessProfile          |-> Query,
   getOrderbyMsg               |-> Query]

BusinessControls ==
  [editBusinessProfile  |-> Act,
   sendImageWithProduct |-> <<"ignore">>]
==============================================================================
